---- MODULE Spec2Model ----
(***************************************************************************)
(* A model of the query-path machinery of the in-memory time-series       *)
(* storage engine: the merge streams of src/storage/partitioned_store.rs, *)
(* the in-memory partition of src/storage/memdb.rs and the series-set     *)
(* converter of delorean_storage/src/exec/seriesset.rs.                   *)
(*                                                                         *)
(* Each component has its own specification (SpecSM, SpecRM, SpecConv,    *)
(* SpecMem, and SpecBuf for SeriesBuffer::read alone); the variables of   *)
(* the other components stay at their idle values under it.               *)
(*                                                                         *)
(* The strings the merge streams compare are modelled by their rank in    *)
(* the lexicographic order (a natural number), so that String::cmp is the *)
(* order of the naturals.                                                  *)
(***************************************************************************)
EXTENDS Integers, Sequences, FiniteSets, Bags, TLC

VARIABLES
    \* ---- StringMergeStream and its input streams
    smIn,        \* the values each input stream yields, as constructed
    smRest,      \* per input stream: the values it has not yielded yet
    smEnded,     \* per input stream: it has returned Poll::Ready(None)
    smNext,      \* StringMergeStream.states[i].next
    smDrained,   \* StringMergeStream.drained
    smOut,       \* the values poll_next has returned in Poll::Ready(Some(_))
    smRet,       \* what the last poll_next returned
    smPolls,     \* per input stream: times it was polled by the last poll_next
    smFault      \* "none", "unreachable" (the unreachable!() arm was taken) or
                 \* "polled_after_end" (an input was polled after Ready(None))

VARIABLES
    \* ---- ReadMergeStream and its input streams
    rmTypes,     \* per input stream: the value type of the batches it yields
    rmNext,      \* ReadMergeStream.states[i].next
    rmEnded,     \* per input stream: it has returned Poll::Ready(None)
    rmDrained,   \* ReadMergeStream.drained
    rmRet,       \* what the last poll_next returned
    rmMaxPolls,  \* the most the last poll_next polled any one input stream
    rmFilled,    \* the last poll_next polled exactly the input streams whose
                 \* slot was Pending, unless the merger was drained
    rmFault,     \* "none", "unreachable", "polled_after_end" or "empty_batch"
                 \* (start_stop_times unwrapped an empty batch)
    rmHeads,     \* the slots as the last poll_next had them after its first loop
    rmInOrdered, \* every input stream has so far yielded its batches in
                 \* non-decreasing key order, times non-decreasing within a key
    rmLastIn,    \* while rmInOrdered, per input stream that has not ended:
                 \* <<key, last time>> of the last batch it yielded (else <<>>)
    rmLastOut,   \* while rmInOrdered: <<key, last time>> of the last batch
                 \* poll_next emitted (else <<>>)
    rmIn,        \* a run over fixed inputs: per input stream, its batches
                 \* (<<>> in a run whose input streams answer freely)
    rmRest,      \* a run over fixed inputs: the batches not yet yielded
    rmOut,       \* a run over fixed inputs: the batches emitted so far
    rmRef        \* a run over fixed inputs: the batches emitted when no input
                 \* stream ever answers Pending

VARIABLES
    \* ---- SeriesSetConverter::convert, its channel and the consumer
    cvTable,     \* convert's table_name
    cvTags,      \* convert's tag_columns
    cvFields,    \* convert's field_columns
    cvIt,        \* the items the RecordBatchReader `it` yields
    cvCap,       \* the capacity of the mpsc channel
    cvPc,        \* where convert is: "start", "send" (at a send of a
                 \* SeriesSet), "send_err" (at the send of convert_impl's
                 \* error), "returned" or "panicked"
    cvTodo,      \* the series_sets not sent yet
    cvErr,       \* the error convert_impl returned, <<>> when none
    cvResult,    \* what convert returned: "Ok" or "Sending" ("none" before)
    cvChan,      \* the items in the channel
    cvSent,      \* the items the channel has accepted, in order
    cvRecv,      \* the items the consumer has received, in order
    cvTxAlive,   \* the converter (the only Sender) has not been dropped
    cvRxAlive,   \* the Receiver has not been dropped
    cvRxClosed   \* recv has returned None to the consumer

VARIABLES
    \* ---- MemDB
    mdLastId,        \* series_map.last_id
    mdKeyToId,       \* series_map.series_key_to_id
    mdIdToKeyType,   \* series_map.series_id_to_key_and_type
    mdTagKeys,       \* series_map.tag_keys
    mdPosting,       \* series_map.posting_list
    mdMapSize,       \* series_map.current_size
    mdI64,           \* series_data.i64_series
    mdF64,           \* series_data.f64_series
    mdDataSize,      \* series_data.current_size
    mdSubmitted,     \* the number of points handed to write so far
    mdWritten,       \* the points write has stored so far, in order
    mdOp,            \* the call whose result the caller holds, with its arguments
    mdRet            \* what that call returned

VARIABLES
    \* ---- SeriesBuffer::read on its own
    sbValues,        \* the buffer's values
    sbRange,         \* the range read
    sbRet            \* <<>> before the read, then its result

VARIABLES
    \* ---- the HTTP service
    htReqs           \* the calls of service so far, in the order they were made:
                     \* the request, the arm taken, the await the call is
                     \* suspended at ("done", "panicked" when it is over), what
                     \* the arm evaluated to and the status of the response

smVars == <<smIn, smRest, smEnded, smNext, smDrained, smOut, smRet, smPolls, smFault>>
rmVars == <<rmTypes, rmNext, rmEnded, rmDrained, rmRet, rmMaxPolls, rmFilled, rmFault, rmHeads,
            rmInOrdered, rmLastIn, rmLastOut, rmIn, rmRest, rmOut, rmRef>>

cvVars == <<cvTable, cvTags, cvFields, cvIt, cvCap, cvPc, cvTodo, cvErr, cvResult,
            cvChan, cvSent, cvRecv, cvTxAlive, cvRxAlive, cvRxClosed>>

mdVars == <<mdLastId, mdKeyToId, mdIdToKeyType, mdTagKeys, mdPosting, mdMapSize,
            mdI64, mdF64, mdDataSize, mdSubmitted, mdWritten, mdOp, mdRet>>

sbVars == <<sbValues, sbRange, sbRet>>

htVars == <<htReqs>>

vars == <<smVars, rmVars, cvVars, mdVars, sbVars, htVars>>

----------------------------------------------------------------------------
(* std::task::Poll<Option<T>> *)

Pending == [tag |-> "Pending"]
ReadyNone == [tag |-> "None"]
ReadySome(v) == [tag |-> "Some", val |-> v]

IsPending(p) == p.tag = "Pending"
IsSome(p) == p.tag = "Some"

----------------------------------------------------------------------------
(* Bounds of the StringMergeStream model *)

\* number of input streams given to StringMergeStream::new
SMInputs == 3
\* the strings are those of rank 1..SMMaxStr
SMMaxStr == 3

SMIdx == 1..SMInputs

RECURSIVE SeqsUpTo(_, _)
\* every sequence over S of length <= n
SeqsUpTo(S, n) ==
    IF n = 0 THEN {<<>>}
    ELSE LET shorter == SeqsUpTo(S, n - 1)
         IN  shorter \cup {Append(s, x) : s \in shorter, x \in S}

StrictlyAscending(s) == \A i \in 1..(Len(s) - 1) : s[i] < s[i + 1]

\* the input streams the merger is documented to accept: sorted, no duplicates
SMStreams == {s \in SeqsUpTo(1..SMMaxStr, SMMaxStr) : StrictlyAscending(s)}

----------------------------------------------------------------------------
(* An input stream (BoxStream<String>): poll_next of stream i.  `ready` is  *)
(* the stream's answer to this poll: FALSE is Poll::Pending.  st carries    *)
(* the streams and the slots while one poll_next of the merger runs.        *)

SMPollStream(st, i, ready) ==
    LET polled == [st EXCEPT !.polls[i] = @ + 1,
                             !.fault = IF st.ended[i] /\ @ = "none"
                                       THEN "polled_after_end" ELSE @]
    IN  IF ~ready THEN [polled EXCEPT !.next[i] = Pending]
        ELSE IF polled.rest[i] = <<>>
             THEN [polled EXCEPT !.next[i] = ReadyNone, !.ended[i] = TRUE]
             ELSE [polled EXCEPT !.next[i] = ReadySome(Head(polled.rest[i])),
                                 !.rest[i] = Tail(polled.rest[i])]

\* rdy[i] is the number of polls stream i answers Ready before it answers
\* Pending: the answer to the poll that comes now
SMAnswer(st, i, rdy) == st.polls[i] < rdy[i]

RECURSIVE SMFillPollsEnded(_, _, _)
\* a first loop that also polls the streams that have ended
SMFillPollsEnded(st, i, rdy) ==
    IF i > SMInputs THEN st
    ELSE IF ~IsSome(st.next[i])
         THEN SMFillPollsEnded(SMPollStream(st, i, SMAnswer(st, i, rdy)), i + 1, rdy)
         ELSE SMFillPollsEnded(st, i + 1, rdy)

RECURSIVE SMFillStopsAtPending(_, _, _)
\* a first loop that returns at the first stream that is not ready
SMFillStopsAtPending(st, i, rdy) ==
    IF i > SMInputs THEN st
    ELSE IF IsPending(st.next[i])
         THEN LET polled == SMPollStream(st, i, SMAnswer(st, i, rdy))
              IN  IF IsPending(polled.next[i]) THEN polled
                  ELSE SMFillStopsAtPending(polled, i + 1, rdy)
         ELSE SMFillStopsAtPending(st, i + 1, rdy)

RECURSIVE SMFill(_, _, _)
\* the first loop of poll_next: poll every stream whose slot is Pending
SMFill(st, i, rdy) ==
    IF i > SMInputs THEN st
    ELSE IF IsPending(st.next[i])
         THEN SMFill(SMPollStream(st, i, SMAnswer(st, i, rdy)), i + 1, rdy)
         ELSE SMFill(st, i + 1, rdy)

\* a merger that keeps the duplicate head in its slot
SMEqualArmKeepsDuplicate(st, pos, rdy) == st

\* the Ordering::Equal arm: the duplicate is dropped by polling its stream
SMEqualArm(st, pos, rdy) == SMPollStream(st, pos, SMAnswer(st, pos, rdy))

RECURSIVE SMSelect(_, _, _, _, _)
\* the second loop of poll_next: acc is <<next_val>> or <<>> (None)
SMSelect(st, pos, next_val, next_pos, rdy) ==
    IF pos > SMInputs THEN [st |-> st, next_val |-> next_val, next_pos |-> next_pos]
    ELSE LET slot == st.next[pos]
         IN  IF IsPending(slot)
             THEN SMSelect([st EXCEPT !.fault = "unreachable"], pos + 1,
                           next_val, next_pos, rdy)
             ELSE IF ~IsSome(slot)
             THEN SMSelect(st, pos + 1, next_val, next_pos, rdy)
             ELSE IF next_val = <<>>
             THEN SMSelect(st, pos + 1, <<slot.val>>, pos, rdy)
             ELSE IF next_val[1] > slot.val
             THEN SMSelect(st, pos + 1, <<slot.val>>, pos, rdy)
             ELSE IF next_val[1] = slot.val
             THEN SMSelect(SMEqualArm(st, pos, rdy), pos + 1, next_val, next_pos, rdy)
             ELSE SMSelect(st, pos + 1, next_val, next_pos, rdy)

\* a poll_next that goes on to the selection while an input is Pending
SMPollNextIgnoresPending(st0, rdy) ==
    LET st == [st0 EXCEPT !.polls = [i \in SMIdx |-> 0]]
    IN  IF st.drained THEN [st |-> st, ret |-> ReadyNone]
        ELSE LET filled == SMFill(st, 1, rdy)
                 sel == SMSelect(filled, 1, <<>>, 1, rdy)
             IN  IF sel.next_val = <<>>
                 THEN [st |-> [sel.st EXCEPT !.drained = TRUE], ret |-> ReadyNone]
                 ELSE [st  |-> SMPollStream(sel.st, sel.next_pos,
                                            SMAnswer(sel.st, sel.next_pos, rdy)),
                       ret |-> sel.st.next[sel.next_pos]]

\* a poll_next that emits the leader and leaves it in its slot
SMPollNextKeepsLeader(st0, rdy) ==
    LET st == [st0 EXCEPT !.polls = [i \in SMIdx |-> 0]]
    IN  IF st.drained THEN [st |-> st, ret |-> ReadyNone]
        ELSE LET filled == SMFill(st, 1, rdy)
             IN  IF \E i \in SMIdx : IsPending(filled.next[i])
                 THEN [st |-> filled, ret |-> Pending]
                 ELSE LET sel == SMSelect(filled, 1, <<>>, 1, rdy)
                      IN  IF sel.next_val = <<>>
                          THEN [st |-> [sel.st EXCEPT !.drained = TRUE], ret |-> ReadyNone]
                          ELSE [st |-> sel.st, ret |-> sel.st.next[sel.next_pos]]

\* a poll_next that takes the end of one input for the end of the merged stream
SMPollNextEndsAtFirstEnd(st0, rdy) ==
    LET st == [st0 EXCEPT !.polls = [i \in SMIdx |-> 0]]
    IN  IF st.drained THEN [st |-> st, ret |-> ReadyNone]
        ELSE LET filled == SMFill(st, 1, rdy)
             IN  IF \E i \in SMIdx : IsPending(filled.next[i])
                 THEN [st |-> filled, ret |-> Pending]
                 ELSE LET sel == SMSelect(filled, 1, <<>>, 1, rdy)
                      IN  IF sel.next_val = <<>> \/ \E i \in SMIdx : filled.next[i] = ReadyNone
                          THEN [st |-> [sel.st EXCEPT !.drained = TRUE], ret |-> ReadyNone]
                          ELSE [st  |-> SMPollStream(sel.st, sel.next_pos,
                                                     SMAnswer(sel.st, sel.next_pos, rdy)),
                                ret |-> sel.st.next[sel.next_pos]]

\* StringMergeStream::poll_next, from the state st: the state it leaves and
\* the value it returns
SMPollNext(st0, rdy) ==
    LET st == [st0 EXCEPT !.polls = [i \in SMIdx |-> 0]]
    IN  IF st.drained THEN [st |-> st, ret |-> ReadyNone]
        ELSE LET filled == SMFill(st, 1, rdy)
             IN  IF \E i \in SMIdx : IsPending(filled.next[i])
                 THEN [st |-> filled, ret |-> Pending]
                 ELSE LET sel == SMSelect(filled, 1, <<>>, 1, rdy)
                      IN  IF sel.next_val = <<>>
                          THEN [st |-> [sel.st EXCEPT !.drained = TRUE], ret |-> ReadyNone]
                          ELSE [st  |-> SMPollStream(sel.st, sel.next_pos,
                                                     SMAnswer(sel.st, sel.next_pos, rdy)),
                                ret |-> sel.st.next[sel.next_pos]]

SMState == [rest |-> smRest, ended |-> smEnded, next |-> smNext,
            drained |-> smDrained, polls |-> smPolls, fault |-> smFault]

\* StringMergeStream::new over the chosen streams
SMStart ==
    /\ smIn \in [SMIdx -> SMStreams]
    /\ smRest = smIn
    /\ smEnded = [i \in SMIdx |-> FALSE]
    /\ smNext = [i \in SMIdx |-> Pending]
    /\ smDrained = FALSE
    /\ smOut = <<>>
    /\ smRet = Pending
    /\ smPolls = [i \in SMIdx |-> 0]
    /\ smFault = "none"

\* one call of poll_next by the consumer of the merged stream
SMPoll ==
    /\ smFault = "none"
    /\ \E rdy \in [SMIdx -> 0..2] :
         \E r \in {SMPollNext(SMState, rdy)} :
             /\ smRest' = r.st.rest
             /\ smEnded' = r.st.ended
             /\ smNext' = r.st.next
             /\ smDrained' = r.st.drained
             /\ smPolls' = r.st.polls
             /\ smFault' = r.st.fault
             /\ smRet' = r.ret
             /\ smOut' = IF IsSome(r.ret) THEN Append(smOut, r.ret.val) ELSE smOut
    /\ UNCHANGED smIn

\* the component is not part of the run
SMIdle ==
    /\ smIn = <<>> /\ smRest = <<>> /\ smEnded = <<>> /\ smNext = <<>>
    /\ smDrained = FALSE /\ smOut = <<>> /\ smRet = Pending /\ smPolls = <<>>
    /\ smFault = "none"

----------------------------------------------------------------------------
(* Bounds of the ReadMergeStream model *)

\* number of input streams given to ReadMergeStream::new
RMInputs == 3
\* the series keys are the strings of rank 1..RMMaxKey
RMMaxKey == 2
\* the timestamps are 1..RMMaxTime
RMMaxTime == 2
\* an input batch holds 1..RMMaxPts points
RMMaxPts == 2

RMIdx == 1..RMInputs

\* SeriesDataType: the variants of ReadValues
ValueTypes == {"I64", "F64"}

(* ReadBatch {key, values}: values is ReadValues::I64(vals) or ::F64(vals), *)
(* vals a Vec<ReadPoint {time, value}>.                                     *)
ReadBatch(k, ty, pts) == [key |-> k, values |-> [type |-> ty, vals |-> pts]]

Distinct(s) == \A i, j \in 1..Len(s) : i # j => s[i] # s[j]

\* The batches input stream i may yield.  The merger never reads a value, so
\* the points of stream i carry the value i: it tells where a point came from.
\* No input batch is empty (MemDB::read skips empty slices); the times of a
\* batch are in any order (MemDB does not sort on write) and distinct; all
\* batches of one stream have the value type rmTypes[i].
RMBatches(i) ==
    {ReadBatch(k, rmTypes[i], [j \in 1..Len(ts) |-> [time |-> ts[j], value |-> i]]) :
        k \in 1..RMMaxKey,
        ts \in {t \in SeqsUpTo(1..RMMaxTime, RMMaxPts) : t # <<>> /\ Distinct(t)}}

\* what input stream i may answer to a poll
RMAnswers(i) == {Pending, ReadyNone} \cup {ReadySome(b) : b \in RMBatches(i)}

NotPolled == [tag |-> "NotPolled"]

----------------------------------------------------------------------------
(* ReadBatch and ReadValues *)

\* ReadValues::is_empty
IsEmptyValues(values) == values.vals = <<>>

\* ReadBatch::start_stop_times; the caller checks for the empty batch, on
\* which the unwrap panics
StartStopTimes(batch) ==
    <<batch.values.vals[1].time, batch.values.vals[Len(batch.values.vals)].time>>

RECURSIVE InsertByTime(_, _)
\* v placed after every element of the sorted s whose time is <= v.time
InsertByTime(s, v) ==
    IF s = <<>> THEN <<v>>
    ELSE IF s[Len(s)].time <= v.time THEN Append(s, v)
    ELSE Append(InsertByTime(SubSeq(s, 1, Len(s) - 1), v), s[Len(s)])

RECURSIVE StableSort(_)
\* Vec::sort_by_key(|v| v.time): a stable sort
StableSort(s) ==
    IF s = <<>> THEN <<>>
    ELSE InsertByTime(StableSort(SubSeq(s, 1, Len(s) - 1)), s[Len(s)])

\* a batch left in the order in which it was put together
SortByTimeSkipped(batch) == batch

\* ReadBatch::sort_by_time
SortByTime(batch) == [batch EXCEPT !.values.vals = StableSort(@)]

\* Iterator::position(|val| val.time > t): 0 stands for None
PositionAbove(vals, t) ==
    IF \E j \in 1..Len(vals) : vals[j].time > t
    THEN CHOOSE j \in 1..Len(vals) :
            /\ vals[j].time > t
            /\ \A h \in 1..(j - 1) : vals[h].time <= t
    ELSE 0

\* an append_below_time that leaves a batch of the other value type in place
AppendBelowTimeKeepsOtherType(self, other, t) ==
    IF self.values.type = other.values.type
    THEN LET pos == PositionAbove(other.values.vals, t)
             taken == IF pos = 0 THEN other.values.vals
                      ELSE SubSeq(other.values.vals, 1, pos - 1)
             left == IF pos = 0 THEN <<>>
                     ELSE SubSeq(other.values.vals, pos, Len(other.values.vals))
         IN  [self  |-> [self EXCEPT !.values.vals = @ \o taken],
              other |-> [other EXCEPT !.values.vals = left],
              cleared |-> (left = <<>>)]
    ELSE [self |-> self, other |-> other, cleared |-> FALSE]

\* an append_below_time that never reports other as cleared
AppendBelowTimeKeepsEmptied(self, other, t) ==
    IF self.values.type = other.values.type
    THEN LET pos == PositionAbove(other.values.vals, t)
             taken == IF pos = 0 THEN other.values.vals
                      ELSE SubSeq(other.values.vals, 1, pos - 1)
             left == IF pos = 0 THEN <<>>
                     ELSE SubSeq(other.values.vals, pos, Len(other.values.vals))
         IN  [self  |-> [self EXCEPT !.values.vals = @ \o taken],
              other |-> [other EXCEPT !.values.vals = left],
              cleared |-> FALSE]
    ELSE [self |-> self, other |-> other, cleared |-> TRUE]

\* an append_below_time that always reports other as cleared
AppendBelowTimeReportsCleared(self, other, t) ==
    IF self.values.type = other.values.type
    THEN LET pos == PositionAbove(other.values.vals, t)
             taken == IF pos = 0 THEN other.values.vals
                      ELSE SubSeq(other.values.vals, 1, pos - 1)
             left == IF pos = 0 THEN <<>>
                     ELSE SubSeq(other.values.vals, pos, Len(other.values.vals))
         IN  [self  |-> [self EXCEPT !.values.vals = @ \o taken],
              other |-> [other EXCEPT !.values.vals = left],
              cleared |-> TRUE]
    ELSE [self |-> self, other |-> other, cleared |-> TRUE]

\* ReadBatch::append_below_time(self, other, t): the two batches it leaves
\* and the flag it returns
AppendBelowTime(self, other, t) ==
    IF self.values.type = other.values.type
    THEN LET pos == PositionAbove(other.values.vals, t)
             taken == IF pos = 0 THEN other.values.vals
                      ELSE SubSeq(other.values.vals, 1, pos - 1)
             left == IF pos = 0 THEN <<>>
                     ELSE SubSeq(other.values.vals, pos, Len(other.values.vals))
         IN  [self  |-> [self EXCEPT !.values.vals = @ \o taken],
              other |-> [other EXCEPT !.values.vals = left],
              cleared |-> (left = <<>>)]
    ELSE [self |-> self, other |-> other, cleared |-> TRUE]

----------------------------------------------------------------------------
(* ReadMergeStream::poll_next *)

\* poll_next of input stream i, which answers ans[i]
RMPollStream(st, i, ans) ==
    [st EXCEPT !.polls[i] = @ + 1,
               !.fault = IF st.ended[i] /\ @ = "none" THEN "polled_after_end" ELSE @,
               !.next[i] = ans[i],
               !.ended[i] = @ \/ ans[i] = ReadyNone]

RECURSIVE RMFill(_, _, _)
\* the first loop: poll every stream whose slot is Pending
RMFill(st, i, ans) ==
    IF i > RMInputs THEN st
    ELSE IF IsPending(st.next[i])
         THEN RMFill(RMPollStream(st, i, ans), i + 1, ans)
         ELSE RMFill(st, i + 1, ans)

\* an Equal arm that forgets the stream it replaces as the leader
RMEqualArmForgetsOldLeader(acc, pos, t) ==
    IF t < acc.min_time
    THEN [acc EXCEPT !.min_time = t, !.min_pos = pos]
    ELSE [acc EXCEPT !.positions = Append(@, pos)]

\* the Ordering::Equal arm of the second loop, for the batch at pos with last
\* time t: the strict < keeps the earlier stream as the leader on a tie
RMEqualArm(acc, pos, t) ==
    IF t < acc.min_time
    THEN [acc EXCEPT !.min_time = t,
                     !.positions = Append(@, acc.min_pos),
                     !.min_pos = pos]
    ELSE [acc EXCEPT !.positions = Append(@, pos)]

RECURSIVE RMSelect(_, _, _)
\* the second loop: next_min_key is <<key>> or <<>> (None)
RMSelect(next, pos, acc) ==
    IF pos > RMInputs \/ acc.fault # "none" THEN acc
    ELSE LET slot == next[pos]
         IN  IF IsPending(slot)
             THEN [acc EXCEPT !.fault = "unreachable"]
             ELSE IF ~IsSome(slot)
             THEN RMSelect(next, pos + 1, acc)
             ELSE IF acc.next_min_key = <<>> \/ acc.next_min_key[1] > slot.val.key
             THEN IF IsEmptyValues(slot.val.values)
                  THEN [acc EXCEPT !.fault = "empty_batch"]
                  ELSE RMSelect(next, pos + 1,
                           [acc EXCEPT !.next_min_key = <<slot.val.key>>,
                                       !.min_pos = pos,
                                       !.positions = <<>>,
                                       !.min_time = StartStopTimes(slot.val)[2]])
             ELSE IF acc.next_min_key[1] = slot.val.key
             THEN IF IsEmptyValues(slot.val.values)
                  THEN [acc EXCEPT !.fault = "empty_batch"]
                  ELSE RMSelect(next, pos + 1,
                                RMEqualArm(acc, pos, StartStopTimes(slot.val)[2]))
             ELSE RMSelect(next, pos + 1, acc)

RECURSIVE RMDrain(_, _, _, _, _)
\* the loop over positions: m is <<the batch to emit, the slots>>
RMDrain(batch, next, positions, n, min_time) ==
    IF n > Len(positions) THEN [batch |-> batch, next |-> next]
    ELSE LET pos == positions[n]
         IN  IF IsSome(next[pos])
             THEN LET a == AppendBelowTime(batch, next[pos].val, min_time)
                  IN  RMDrain(a.self,
                              [next EXCEPT ![pos] = IF a.cleared THEN Pending
                                                    ELSE ReadySome(a.other)],
                              positions, n + 1, min_time)
             ELSE RMDrain(batch, next, positions, n + 1, min_time)

\* the end of poll_next, from the leader at sel.min_pos: the slots it leaves and
\* the value it returns
RMEmit(next, sel) ==
    LET val == next[sel.min_pos]
        taken == [next EXCEPT ![sel.min_pos] = Pending]
    IN  IF sel.positions = <<>> THEN [next |-> taken, ret |-> val, fault |-> "none"]
        ELSE IF ~IsSome(val) THEN [next |-> taken, ret |-> val, fault |-> "unreachable"]
        ELSE LET d == RMDrain(val.val, taken, sel.positions, 1, sel.min_time)
             IN  [next |-> d.next, ret |-> ReadySome(SortByTime(d.batch)),
                  fault |-> "none"]

\* i64::MAX, the first value of min_time: above every timestamp of the model
I64Max == RMMaxTime + 1

\* ReadMergeStream::poll_next, from the state st0 with the input streams
\* answering ans: the state it leaves, the value it returns and the slots after
\* its first loop
RMPollNext(st0, ans) ==
    LET st == [st0 EXCEPT !.polls = [i \in RMIdx |-> 0]]
    IN  IF st.drained THEN [st |-> st, ret |-> ReadyNone, heads |-> st.next]
        ELSE LET filled == RMFill(st, 1, ans)
             IN  IF \E i \in RMIdx : IsPending(filled.next[i])
                 THEN [st |-> filled, ret |-> Pending, heads |-> filled.next]
                 ELSE LET sel == RMSelect(filled.next, 1,
                                     [next_min_key |-> <<>>, min_time |-> I64Max,
                                      min_pos |-> 1, positions |-> <<>>,
                                      fault |-> filled.fault])
                      IN  IF sel.fault # "none"
                          THEN [st |-> [filled EXCEPT !.fault = sel.fault],
                                ret |-> Pending, heads |-> filled.next]
                          ELSE IF sel.next_min_key = <<>>
                          THEN [st |-> [filled EXCEPT !.drained = TRUE],
                                ret |-> ReadyNone, heads |-> filled.next]
                          ELSE LET e == RMEmit(filled.next, sel)
                               IN  [st |-> [filled EXCEPT !.next = e.next,
                                                          !.fault = e.fault],
                                    ret |-> e.ret, heads |-> filled.next]

RMState == [next |-> rmNext, ended |-> rmEnded, drained |-> rmDrained,
            polls |-> [i \in RMIdx |-> 0], fault |-> rmFault]

RECURSIVE MaxOf(_)
MaxOf(s) == IF Len(s) = 0 THEN 0
            ELSE LET m == MaxOf(Tail(s)) IN IF Head(s) > m THEN Head(s) ELSE m

NonDecreasingTimes(vals) == \A j \in 1..(Len(vals) - 1) : vals[j].time <= vals[j + 1].time

\* batch b may follow a batch of <<key, last time>> prev in a stream that
\* keeps the order ReadMergeStream is documented to assume
InOrderAfter(prev, b) ==
    /\ NonDecreasingTimes(b.values.vals)
    /\ prev # <<>> =>
          \/ prev[1] < b.key
          \/ prev[1] = b.key /\ prev[2] <= b.values.vals[1].time

RECURSIVE RMAnswerSets(_)
\* the answers of the streams 1..n: a stream whose slot holds a value is not
\* polled, and its answer is left out (NotPolled)
RMAnswerSets(n) ==
    IF n = 0 THEN {<<>>}
    ELSE {Append(s, a) : s \in RMAnswerSets(n - 1),
                         a \in IF IsPending(rmNext[n]) /\ ~rmDrained
                               THEN RMAnswers(n) ELSE {NotPolled}}

\* ReadMergeStream::new
RMStart ==
    /\ rmTypes \in [RMIdx -> ValueTypes]
    /\ rmNext = [i \in RMIdx |-> Pending]
    /\ rmEnded = [i \in RMIdx |-> FALSE]
    /\ rmDrained = FALSE
    /\ rmRet = Pending
    /\ rmMaxPolls = 0
    /\ rmFilled = TRUE
    /\ rmFault = "none"
    /\ rmHeads = [i \in RMIdx |-> Pending]
    /\ rmLastIn = [i \in RMIdx |-> <<>>]
    /\ rmInOrdered = TRUE
    /\ rmLastOut = <<>>
    /\ rmIn = <<>> /\ rmRest = <<>> /\ rmOut = <<>> /\ rmRef = <<>>

\* one call of poll_next in which the input streams give one of answers
RMPollFrom(answers) ==
    /\ rmFault = "none"
    /\ \E ans \in answers :
         \E r \in {RMPollNext(RMState, ans)} :
             /\ rmNext' = r.st.next
             /\ rmEnded' = r.st.ended
             /\ rmDrained' = r.st.drained
             /\ rmMaxPolls' = MaxOf(r.st.polls)
             /\ rmFilled' = \A i \in RMIdx :
                                (r.st.polls[i] > 0) <=> (IsPending(rmNext[i]) /\ ~rmDrained)
             /\ rmFault' = r.st.fault
             /\ rmRet' = r.ret
             /\ rmHeads' = r.heads
             /\ \E ordered \in {rmInOrdered /\
                                \A i \in RMIdx :
                                   (r.st.polls[i] > 0 /\ IsSome(ans[i]))
                                       => InOrderAfter(rmLastIn[i], ans[i].val)} :
                  /\ rmInOrdered' = ordered
                  /\ rmLastIn' = [i \in RMIdx |->
                        IF ~ordered \/ r.st.ended[i] THEN <<>>
                        ELSE IF r.st.polls[i] > 0 /\ IsSome(ans[i])
                        THEN <<ans[i].val.key, StartStopTimes(ans[i].val)[2]>>
                        ELSE rmLastIn[i]]
                  /\ rmLastOut' = IF ~ordered THEN <<>>
                                  ELSE IF IsSome(r.ret)
                                  THEN <<r.ret.val.key, StartStopTimes(r.ret.val)[2]>>
                                  ELSE rmLastOut
    /\ UNCHANGED rmTypes

\* one call of poll_next by the consumer of the merged stream, the input
\* streams answering freely
RMPoll ==
    /\ RMPollFrom(RMAnswerSets(RMInputs))
    /\ UNCHANGED <<rmIn, rmRest, rmOut, rmRef>>

(* A ReadMergeStream over fixed input streams, which may answer Pending any
   number of times before each batch and before the end. *)
\* an input stream holds at most RMFixedLen batches
RMFixedLen == 2
\* the batches of input stream i: the times 1, or 1 and 2, under any key
RMFixedBatches(i) ==
    {b \in RMBatches(i) : b.values.vals[1].time = 1 /\ NonDecreasingTimes(b.values.vals)}
\* the input streams: batches in key order, times non-decreasing within a key
RMFixedStreams(i) ==
    {s \in SeqsUpTo(RMFixedBatches(i), RMFixedLen) :
        \A j \in 1..(Len(s) - 1) :
            InOrderAfter(<<s[j].key, StartStopTimes(s[j])[2]>>, s[j + 1])}

\* the answers of the input streams to a poll_next that finds the slots next:
\* a stream of pend answers Pending, any other its next batch or its end
RMFixedAnswers(next, drained, rest, pend) ==
    [i \in RMIdx |->
        IF ~(IsPending(next[i]) /\ ~drained) THEN NotPolled
        ELSE IF i \in pend THEN Pending
        ELSE IF rest[i] = <<>> THEN ReadyNone
        ELSE ReadySome(Head(rest[i]))]

\* what is left of the input streams after they gave the answers ans
RMRestAfter(rest, ans) ==
    [i \in RMIdx |-> IF IsSome(ans[i]) THEN Tail(rest[i]) ELSE rest[i]]

RECURSIVE RMReferenceRun(_, _, _, _)
\* the batches emitted by polling from the state st until end-of-stream, no
\* input stream ever answering Pending (at most fuel polls)
RMReferenceRun(st, rest, out, fuel) ==
    IF st.drained \/ st.fault # "none" \/ fuel = 0 THEN out
    ELSE LET ans == RMFixedAnswers(st.next, st.drained, rest, {})
             r == RMPollNext(st, ans)
         IN  RMReferenceRun(r.st, RMRestAfter(rest, ans),
                            IF IsSome(r.ret) THEN Append(out, r.ret.val) ELSE out,
                            fuel - 1)

\* ReadMergeStream::new over the chosen streams
RMFixedStart ==
    /\ rmTypes \in {t \in [RMIdx -> ValueTypes] : t[1] = "I64"}
    /\ rmNext = [i \in RMIdx |-> Pending]
    /\ rmEnded = [i \in RMIdx |-> FALSE]
    /\ rmDrained = FALSE
    /\ rmRet = Pending
    /\ rmMaxPolls = 0
    /\ rmFilled = TRUE
    /\ rmFault = "none"
    /\ rmHeads = [i \in RMIdx |-> Pending]
    /\ rmLastIn = [i \in RMIdx |-> <<>>]
    /\ rmInOrdered = TRUE
    /\ rmLastOut = <<>>
    /\ rmIn \in [RMIdx -> UNION {RMFixedStreams(i) : i \in RMIdx}]
    /\ \A i \in RMIdx : rmIn[i] \in RMFixedStreams(i)
    /\ rmRest = rmIn
    /\ rmOut = <<>>
    /\ rmRef = RMReferenceRun(RMState, rmIn, <<>>, RMInputs * (RMFixedLen + 1) + 2)

\* one call of poll_next by the consumer of the merged stream, the input
\* streams of pend answering Pending
RMFixedPoll ==
    \E pend \in SUBSET RMIdx :
        \E ans \in {RMFixedAnswers(rmNext, rmDrained, rmRest, pend)} :
            /\ RMPollFrom({ans})
            /\ rmRest' = RMRestAfter(rmRest, ans)
            /\ rmOut' = IF IsSome(rmRet') THEN Append(rmOut, rmRet'.val) ELSE rmOut
            /\ UNCHANGED <<rmIn, rmRef>>


RMIdle ==
    /\ rmTypes = <<>>
    /\ rmNext = <<>> /\ rmEnded = <<>> /\ rmDrained = FALSE /\ rmRet = Pending
    /\ rmMaxPolls = 0 /\ rmFilled = TRUE /\ rmFault = "none" /\ rmHeads = <<>>
    /\ rmLastIn = <<>> /\ rmInOrdered = TRUE /\ rmLastOut = <<>>
    /\ rmIn = <<>> /\ rmRest = <<>> /\ rmOut = <<>> /\ rmRef = <<>>

----------------------------------------------------------------------------
(* Bounds of the SeriesSetConverter model *)

\* a RecordBatch has 0..CvMaxRows rows
CvMaxRows == 3
\* the mpsc channel has a capacity of 1..CvMaxCap
CvMaxCap == 2

(* The record batches: the schema and the tag values of the tests.  A      *)
(* column is [name, type]; a row gives the values in schema order.         *)
Column(n, ty) == [name |-> n, type |-> ty]

TestSchema == <<Column("tag_a", "Utf8"), Column("tag_b", "Utf8"),
                Column("int_field", "Int64"), Column("time", "Int64")>>

\* the same without the time column
NoTimeSchema == SubSeq(TestSchema, 1, 3)

TIME_COLUMN_NAME == "time"

CvRows == {<<a, b, 0, 0>> : a \in {"one", "two"}, b \in {"ten", "eleven"}}

RecordBatches == [schema : {TestSchema, NoTimeSchema}, rows : SeqsUpTo(CvRows, CvMaxRows)]

\* what the reader yields: Ok(batch) or Err(ArrowError)
ItemOk(b) == [ok |-> TRUE, batch |-> b]
ItemErr == [ok |-> FALSE]

\* the readers: no batch, an error, one batch, two batches
CvReaders == {<<>>, <<ItemErr>>}
             \cup {<<ItemOk(b)>> : b \in RecordBatches}
             \cup {<<ItemOk(b), ItemOk(b)>> : b \in RecordBatches}

\* the column names convert is called with
CvNames == {"tag_a", "tag_b", "int_field", "missing"}

----------------------------------------------------------------------------
(* SeriesSetConverter: the synchronous part.  Row and column indices are   *)
(* those of the code: they start at 0.                                      *)

\* Schema::index_of: -1 stands for the ArrowError
IndexOf(schema, name) ==
    IF \E c \in 1..Len(schema) : schema[c].name = name
    THEN (CHOOSE c \in 1..Len(schema) :
             /\ schema[c].name = name
             /\ \A d \in 1..(c - 1) : schema[d].name # name) - 1
    ELSE -1

\* an error that names the time column whatever column is missing
ColumnNotFoundNamesTime(name) ==
    [error |-> "ColumnNotFoundForSeriesSet", column_name |-> TIME_COLUMN_NAME]

ColumnNotFound(name) == [error |-> "ColumnNotFoundForSeriesSet", column_name |-> name]

RECURSIVE NamesToIndices(_, _)
\* SeriesSetConverter::names_to_indices: the indices, or the error of the
\* first name the schema does not have
NamesToIndices(schema, column_names) ==
    IF column_names = <<>> THEN [ok |-> TRUE, idx |-> <<>>]
    ELSE LET i == IndexOf(schema, Head(column_names))
         IN  IF i < 0 THEN [ok |-> FALSE, err |-> ColumnNotFound(Head(column_names))]
             ELSE LET rest == NamesToIndices(schema, Tail(column_names))
                  IN  IF rest.ok THEN [ok |-> TRUE, idx |-> <<i>> \o rest.idx]
                      ELSE rest

\* RecordBatch::column(col_idx).value(row)
Value(batch, col_idx, row) == batch.rows[row + 1][col_idx + 1]

\* a scan that never updates current_val
ScanTransitionsAgainstFirst(batch, col_idx, row, current_val) ==
    {r \in row..(Len(batch.rows) - 1) : Value(batch, col_idx, r) # current_val}

RECURSIVE ScanTransitions(_, _, _, _)
\* the loop of compute_transitions from row on, with current_val
ScanTransitions(batch, col_idx, row, current_val) ==
    IF row >= Len(batch.rows) THEN {}
    ELSE LET next_val == Value(batch, col_idx, row)
         IN  IF next_val # current_val
             THEN {row} \cup ScanTransitions(batch, col_idx, row + 1, next_val)
             ELSE ScanTransitions(batch, col_idx, row + 1, current_val)

\* compute_transitions without the bitmap.add(num_rows) that closes the last run
ComputeTransitionsOpenEnd(batch, col_idx) ==
    [panic |-> Len(batch.rows) >= 1 /\ batch.schema[col_idx + 1].type # "Utf8",
     bitmap |-> IF Len(batch.rows) < 1 \/ batch.schema[col_idx + 1].type # "Utf8" THEN {}
                ELSE {r \in 1..(Len(batch.rows) - 1) :
                         Value(batch, col_idx, r) # Value(batch, col_idx, r - 1)}]

\* compute_transitions with row 0 in the bitmap
ComputeTransitionsIncludesRowZero(batch, col_idx) ==
    LET num_rows == Len(batch.rows)
    IN  IF num_rows < 1 THEN [panic |-> FALSE, bitmap |-> {}]
        ELSE IF batch.schema[col_idx + 1].type # "Utf8" THEN [panic |-> TRUE, bitmap |-> {}]
        ELSE [panic |-> FALSE,
              bitmap |-> {0} \cup ScanTransitions(batch, col_idx, 1, Value(batch, col_idx, 0))
                         \cup {num_rows}]

\* SeriesSetConverter::compute_transitions: the bitmap, or the panic of
\* unimplemented!() on a column that is not Utf8
ComputeTransitions(batch, col_idx) ==
    LET num_rows == Len(batch.rows)
    IN  IF num_rows < 1 THEN [panic |-> FALSE, bitmap |-> {}]
        ELSE IF batch.schema[col_idx + 1].type # "Utf8" THEN [panic |-> TRUE, bitmap |-> {}]
        ELSE [panic |-> FALSE,
              bitmap |-> ScanTransitions(batch, col_idx, 1, Value(batch, col_idx, 0))
                         \cup {num_rows}]

\* the intersections bitmap of convert_impl from the bitmaps of the tag columns
Intersections(batch, tag_transitions) ==
    IF tag_transitions = <<>> THEN {Len(batch.rows)}
    ELSE UNION {tag_transitions[c] : c \in 1..Len(tag_transitions)}

\* SeriesSetConverter::get_tag_keys
GetTagKeys(batch, row, tag_column_names, tag_indicies) ==
    [c \in 1..Len(tag_column_names) |->
        <<tag_column_names[c], Value(batch, tag_indicies[c], row)>>]

RECURSIVE Ascending(_)
\* the bitmap's elements in the order Bitmap::iter gives them
Ascending(S) ==
    IF S = {} THEN <<>>
    ELSE LET m == CHOOSE x \in S : \A y \in S : x <= y
         IN  <<m>> \o Ascending(S \ {m})

\* a map that never moves start_row
BuildSeriesSetsFromZero(ends, start_row, mk) ==
    [n \in 1..Len(ends) |-> mk[<<0, ends[n]>>]]

RECURSIVE BuildSeriesSets(_, _, _)
\* the map over intersections.iter(): start_row is carried from one
\* SeriesSet to the next
BuildSeriesSets(ends, start_row, mk) ==
    IF ends = <<>> THEN <<>>
    ELSE <<mk[<<start_row, Head(ends)>>]>> \o BuildSeriesSets(Tail(ends), Head(ends), mk)

\* the body of `if let Some(batch) = it.next()` of convert_impl up to its
\* first await: "ok" with the series_sets to send, "err" with the error it
\* returns, or "panic"
ConvertBatch(table_name, tag_columns, field_columns, it) ==
    IF ~it[1].ok THEN [kind |-> "err", err |-> [error |-> "ReadingRecordBatch"]]
    ELSE IF Len(it) > 1 THEN [kind |-> "panic"]
    ELSE LET batch == it[1].batch
             timestamp_index == IndexOf(batch.schema, TIME_COLUMN_NAME)
             tags == NamesToIndices(batch.schema, tag_columns)
             fields == NamesToIndices(batch.schema, field_columns)
         IN  IF timestamp_index < 0
             THEN [kind |-> "err", err |-> ColumnNotFound(TIME_COLUMN_NAME)]
             ELSE IF ~tags.ok THEN [kind |-> "err", err |-> tags.err]
             ELSE IF ~fields.ok THEN [kind |-> "err", err |-> fields.err]
             ELSE LET tr == [c \in 1..Len(tags.idx) |->
                                ComputeTransitions(batch, tags.idx[c])]
                  IN  IF \E c \in 1..Len(tr) : tr[c].panic THEN [kind |-> "panic"]
                      ELSE LET ends == Ascending(Intersections(batch,
                                           [c \in 1..Len(tr) |-> tr[c].bitmap]))
                               mk == [se \in (0..Len(batch.rows)) \X (0..Len(batch.rows)) |->
                                        [table_name |-> table_name,
                                         tags |-> GetTagKeys(batch, se[1], tag_columns,
                                                             tags.idx),
                                         timestamp_index |-> timestamp_index,
                                         field_indices |-> fields.idx,
                                         start_row |-> se[1],
                                         num_rows |-> se[2] - se[1]]]
                           IN  [kind |-> "ok",
                                series_sets |-> BuildSeriesSets(ends, 0, mk)]

\* a convert_impl that takes a reader without batch as a failed read
ConvertImplNoBatchIsError(table_name, tag_columns, field_columns, it) ==
    IF it = <<>> THEN [kind |-> "err", err |-> [error |-> "ReadingRecordBatch"]]
    ELSE ConvertBatch(table_name, tag_columns, field_columns, it)

\* convert_impl up to its first await: with no batch it has nothing to send
ConvertImpl(table_name, tag_columns, field_columns, it) ==
    IF it = <<>> THEN [kind |-> "ok", series_sets |-> <<>>]
    ELSE ConvertBatch(table_name, tag_columns, field_columns, it)

----------------------------------------------------------------------------
(* SeriesSetConverter::convert as a process: it suspends at each send.     *)
(* The channel is tokio's bounded mpsc channel: send waits while the       *)
(* channel holds `capacity` items and fails once the Receiver is dropped;  *)
(* recv returns None once the channel is empty and the Sender is dropped.  *)

SentOk(series_set) == [ok |-> TRUE, set |-> series_set]
SentErr(e) == [ok |-> FALSE, err |-> e]

CvStart ==
    /\ cvTable = "foo"
    /\ cvTags \in SeqsUpTo(CvNames, 2)
    /\ cvFields \in SeqsUpTo({"int_field", "missing"}, 1)
    /\ cvIt \in CvReaders
    /\ cvCap \in 1..CvMaxCap
    /\ cvPc = "start"
    /\ cvTodo = <<>>
    /\ cvErr = <<>>
    /\ cvResult = "none"
    /\ cvChan = <<>>
    /\ cvSent = <<>>
    /\ cvRecv = <<>>
    /\ cvTxAlive = TRUE
    /\ cvRxAlive = TRUE
    /\ cvRxClosed = FALSE

\* convert from its call to its first await
CvConvert ==
    /\ cvPc = "start"
    /\ \E r \in {ConvertImpl(cvTable, cvTags, cvFields, cvIt)} :
          CASE r.kind = "panic" ->
                 /\ cvPc' = "panicked"
                 /\ cvTxAlive' = FALSE
                 /\ UNCHANGED <<cvTodo, cvErr, cvResult>>
            [] r.kind = "err" ->
                 /\ cvPc' = "send_err"
                 /\ cvErr' = <<r.err>>
                 /\ UNCHANGED <<cvTodo, cvResult, cvTxAlive>>
            [] r.kind = "ok" /\ r.series_sets = <<>> ->
                 /\ cvPc' = "returned"
                 /\ cvResult' = "Ok"
                 /\ UNCHANGED <<cvTodo, cvErr, cvTxAlive>>
            [] r.kind = "ok" /\ r.series_sets # <<>> ->
                 /\ cvPc' = "send"
                 /\ cvTodo' = r.series_sets
                 /\ UNCHANGED <<cvErr, cvResult, cvTxAlive>>
    /\ UNCHANGED <<cvTable, cvTags, cvFields, cvIt, cvCap, cvChan, cvSent, cvRecv,
                   cvRxAlive, cvRxClosed>>

\* a send whose result is ignored: with the Receiver dropped the SeriesSet is
\* lost and the loop goes on
CvSendIgnoresDrop ==
    /\ cvPc = "send"
    /\ IF ~cvRxAlive
       THEN UNCHANGED <<cvChan, cvSent>>
       ELSE /\ Len(cvChan) < cvCap
            /\ cvChan' = Append(cvChan, SentOk(Head(cvTodo)))
            /\ cvSent' = Append(cvSent, SentOk(Head(cvTodo)))
    /\ cvTodo' = Tail(cvTodo)
    /\ cvPc' = IF Tail(cvTodo) = <<>> THEN "returned" ELSE "send"
    /\ cvResult' = IF Tail(cvTodo) = <<>> THEN "Ok" ELSE cvResult
    /\ UNCHANGED <<cvTable, cvTags, cvFields, cvIt, cvCap, cvErr, cvRecv, cvTxAlive,
                   cvRxAlive, cvRxClosed>>

\* one self.tx.send(Ok(series_set)).await of convert_impl, up to the next await
CvSend ==
    /\ cvPc = "send"
    /\ IF ~cvRxAlive
       THEN /\ cvPc' = "send_err"
            /\ cvErr' = <<[error |-> "Sending"]>>
            /\ UNCHANGED <<cvTodo, cvChan, cvSent, cvResult>>
       ELSE /\ Len(cvChan) < cvCap
            /\ cvChan' = Append(cvChan, SentOk(Head(cvTodo)))
            /\ cvSent' = Append(cvSent, SentOk(Head(cvTodo)))
            /\ cvTodo' = Tail(cvTodo)
            /\ cvPc' = IF Tail(cvTodo) = <<>> THEN "returned" ELSE "send"
            /\ cvResult' = IF Tail(cvTodo) = <<>> THEN "Ok" ELSE cvResult
            /\ UNCHANGED cvErr
    /\ UNCHANGED <<cvTable, cvTags, cvFields, cvIt, cvCap, cvRecv, cvTxAlive,
                   cvRxAlive, cvRxClosed>>

\* the self.tx.send(Err(e)).await of convert and its return
CvSendErr ==
    /\ cvPc = "send_err"
    /\ IF ~cvRxAlive
       THEN /\ cvResult' = "Sending"
            /\ UNCHANGED <<cvChan, cvSent>>
       ELSE /\ Len(cvChan) < cvCap
            /\ cvChan' = Append(cvChan, SentErr(cvErr[1]))
            /\ cvSent' = Append(cvSent, SentErr(cvErr[1]))
            /\ cvResult' = "Ok"
    /\ cvPc' = "returned"
    /\ UNCHANGED <<cvTable, cvTags, cvFields, cvIt, cvCap, cvTodo, cvErr, cvRecv,
                   cvTxAlive, cvRxAlive, cvRxClosed>>

\* the converter is dropped after convert has returned
CvDropConverter ==
    /\ cvPc = "returned"
    /\ cvTxAlive
    /\ cvTxAlive' = FALSE
    /\ UNCHANGED <<cvTable, cvTags, cvFields, cvIt, cvCap, cvPc, cvTodo, cvErr,
                   cvResult, cvChan, cvSent, cvRecv, cvRxAlive, cvRxClosed>>

\* the consumer's rx.recv().await
CvRecv ==
    /\ cvRxAlive
    /\ ~cvRxClosed
    /\ IF cvChan # <<>>
       THEN /\ cvRecv' = Append(cvRecv, Head(cvChan))
            /\ cvChan' = Tail(cvChan)
            /\ UNCHANGED cvRxClosed
       ELSE /\ ~cvTxAlive
            /\ cvRxClosed' = TRUE
            /\ UNCHANGED <<cvRecv, cvChan>>
    /\ UNCHANGED <<cvTable, cvTags, cvFields, cvIt, cvCap, cvPc, cvTodo, cvErr,
                   cvResult, cvSent, cvTxAlive, cvRxAlive>>

\* the consumer drops the Receiver
CvDropRx ==
    /\ cvRxAlive
    /\ cvRxAlive' = FALSE
    /\ cvChan' = <<>>
    /\ UNCHANGED <<cvTable, cvTags, cvFields, cvIt, cvCap, cvPc, cvTodo, cvErr,
                   cvResult, cvSent, cvRecv, cvTxAlive, cvRxClosed>>

\* no conversion
CvIdle ==
    /\ cvTable = "foo"
    /\ cvTags = <<>>
    /\ cvFields = <<>>
    /\ cvIt = <<>>
    /\ cvCap = 1
    /\ cvPc = "start"
    /\ cvTodo = <<>>
    /\ cvErr = <<>>
    /\ cvResult = "none"
    /\ cvChan = <<>>
    /\ cvSent = <<>>
    /\ cvRecv = <<>>
    /\ cvTxAlive = TRUE
    /\ cvRxAlive = TRUE
    /\ cvRxClosed = FALSE

----------------------------------------------------------------------------
(* Bounds of the MemDB model *)

\* at most MdMaxPoints points are handed to write
MdMaxPoints == 3
\* the times of the points are 0..MdMaxTime; the ranges read are over
\* 0..MdMaxTime+1
MdMaxTime == 1
\* a write call has 1..MdMaxBatch points
MdMaxBatch == 2

(* The series keys written: two series of the measurement cpu and one of    *)
(* the measurement mem, as in the tests.                                    *)
MdKeys == {"cpu,host=a\tuser", "cpu,host=b\tuser", "mem,host=b\tfree"}

Pair(k, v) == [key |-> k, value |-> v]

\* Point::index_pairs: the measurement as _m, the tags and the field as _f.
\* It returns a Result; it is Ok for the keys written here
IndexPairs(series) ==
    CASE series = "cpu,host=a\tuser" ->
           [ok |-> TRUE, pairs |-> <<Pair("_m", "cpu"), Pair("host", "a"), Pair("_f", "user")>>]
      [] series = "cpu,host=b\tuser" ->
           [ok |-> TRUE, pairs |-> <<Pair("_m", "cpu"), Pair("host", "b"), Pair("_f", "user")>>]
      [] series = "mem,host=b\tfree" ->
           [ok |-> TRUE, pairs |-> <<Pair("_m", "mem"), Pair("host", "b"), Pair("_f", "free")>>]

\* PointType::new_i64 / new_f64
PointType(ty, series, value, time) ==
    [type |-> ty, series |-> series, value |-> value, time |-> time]

ReadPoint(value, time) == [time |-> time, value |-> value]

\* the MemDB as one value
MemDB(last_id, k2id, id2kt, tag_keys, posting, map_size, i64_series, f64_series, data_size) ==
    [last_id |-> last_id, series_key_to_id |-> k2id,
     series_id_to_key_and_type |-> id2kt, tag_keys |-> tag_keys,
     posting_list |-> posting, map_size |-> map_size,
     i64_series |-> i64_series, f64_series |-> f64_series, data_size |-> data_size]

\* an empty map
EmptyMap == [x \in {} |-> 0]

\* HashMap/BTreeMap::insert
MapInsert(map, k, v) == [x \in DOMAIN map \cup {k} |-> IF x = k THEN v ELSE map[x]]

\* MemDB::new
MemDBNew == MemDB(0, EmptyMap, EmptyMap, EmptyMap, EmptyMap, 0, EmptyMap, EmptyMap, 0)

----------------------------------------------------------------------------
(* MemDB::write *)

\* list_key: key, a zero byte, value
ListKey(key, value) == <<key, 0, value>>

\* the length of list_key's bytes
ListKeyLen(key, value) == Len(key) + 1 + Len(value)

SERIES_KEY_COPIES == 2
SERIES_ID_BYTES == 24
\* size_of::<ReadPoint<i64>>()
ReadPointI64Bytes == 16
\* size_of::<Point<f64>>()
PointF64Bytes == 56

RECURSIVE InsertPairsLastValueOnly(_, _)
\* a loop that replaces the values of a tag key by the value of the pair
InsertPairsLastValueOnly(db, pairs) ==
    IF pairs = <<>> THEN db
    ELSE LET pair == Head(pairs)
             list_key == ListKey(pair.key, pair.value)
             posting_list == IF list_key \in DOMAIN db.posting_list
                             THEN db.posting_list[list_key] ELSE {}
         IN  InsertPairsLastValueOnly(
                 [db EXCEPT
                    !.map_size = @ + ListKeyLen(pair.key, pair.value)
                                   + Len(pair.key) + Len(pair.value),
                    !.posting_list = MapInsert(@, list_key, posting_list \cup {db.last_id}),
                    !.tag_keys = MapInsert(@, pair.key, {pair.value})],
                 Tail(pairs))

RECURSIVE InsertPairsKeyedByValue(_, _)
\* a loop that enters the tag dictionary with the key and the value exchanged
InsertPairsKeyedByValue(db, pairs) ==
    IF pairs = <<>> THEN db
    ELSE LET pair == Head(pairs)
             list_key == ListKey(pair.key, pair.value)
             posting_list == IF list_key \in DOMAIN db.posting_list
                             THEN db.posting_list[list_key] ELSE {}
             tag_values == IF pair.value \in DOMAIN db.tag_keys
                           THEN db.tag_keys[pair.value] ELSE {}
         IN  InsertPairsKeyedByValue(
                 [db EXCEPT
                    !.map_size = @ + ListKeyLen(pair.key, pair.value)
                                   + Len(pair.key) + Len(pair.value),
                    !.posting_list = MapInsert(@, list_key, posting_list \cup {db.last_id}),
                    !.tag_keys = MapInsert(@, pair.value, tag_values \cup {pair.key})],
                 Tail(pairs))

RECURSIVE InsertPairsNewListEachTime(_, _)
\* a loop that starts the posting list of a pair anew with the one id
InsertPairsNewListEachTime(db, pairs) ==
    IF pairs = <<>> THEN db
    ELSE LET pair == Head(pairs)
             list_key == ListKey(pair.key, pair.value)
             tag_values == IF pair.key \in DOMAIN db.tag_keys
                           THEN db.tag_keys[pair.key] ELSE {}
         IN  InsertPairsNewListEachTime(
                 [db EXCEPT
                    !.map_size = @ + ListKeyLen(pair.key, pair.value)
                                   + Len(pair.key) + Len(pair.value),
                    !.posting_list = MapInsert(@, list_key, {db.last_id}),
                    !.tag_keys = MapInsert(@, pair.key, tag_values \cup {pair.value})],
                 Tail(pairs))

RECURSIVE InsertPairs(_, _)
\* the loop of insert_series over the index pairs
InsertPairs(db, pairs) ==
    IF pairs = <<>> THEN db
    ELSE LET pair == Head(pairs)
             list_key == ListKey(pair.key, pair.value)
             posting_list == IF list_key \in DOMAIN db.posting_list
                             THEN db.posting_list[list_key] ELSE {}
             tag_values == IF pair.key \in DOMAIN db.tag_keys
                           THEN db.tag_keys[pair.key] ELSE {}
         IN  InsertPairs(
                 [db EXCEPT
                    !.map_size = @ + ListKeyLen(pair.key, pair.value)
                                   + Len(pair.key) + Len(pair.value),
                    !.posting_list = MapInsert(@, list_key, posting_list \cup {db.last_id}),
                    !.tag_keys = MapInsert(@, pair.key, tag_values \cup {pair.value})],
                 Tail(pairs))

\* an insert_series that takes a new id before it looks the key up
InsertSeriesCountsEveryPoint(db, point) ==
    IF point.series \in DOMAIN db.series_key_to_id
    THEN [db |-> [db EXCEPT !.last_id = @ + 1],
          series_id |-> db.series_key_to_id[point.series], ok |-> TRUE]
    ELSE LET id == db.last_id + 1
             db1 == [db EXCEPT
                       !.last_id = id,
                       !.series_key_to_id = MapInsert(@, point.series, id),
                       !.series_id_to_key_and_type =
                           MapInsert(@, id, [key |-> point.series, type |-> point.type]),
                       !.map_size = @ + Len(point.series) * SERIES_KEY_COPIES
                                      + SERIES_ID_BYTES]
             ip == IndexPairs(point.series)
         IN  IF ~ip.ok THEN [db |-> db1, series_id |-> id, ok |-> FALSE]
             ELSE [db |-> InsertPairs(db1, ip.pairs), series_id |-> id, ok |-> TRUE]

\* an insert_series that records the key and type of a new series under the
\* last id given before it
InsertSeriesReverseUnderOldId(db, point) ==
    IF point.series \in DOMAIN db.series_key_to_id
    THEN [db |-> db, series_id |-> db.series_key_to_id[point.series], ok |-> TRUE]
    ELSE LET id == db.last_id + 1
             db1 == [db EXCEPT
                       !.last_id = id,
                       !.series_key_to_id = MapInsert(@, point.series, id),
                       !.series_id_to_key_and_type =
                           MapInsert(@, db.last_id, [key |-> point.series, type |-> point.type]),
                       !.map_size = @ + Len(point.series) * SERIES_KEY_COPIES
                                      + SERIES_ID_BYTES]
             ip == IndexPairs(point.series)
         IN  IF ~ip.ok THEN [db |-> db1, series_id |-> id, ok |-> FALSE]
             ELSE [db |-> InsertPairs(db1, ip.pairs), series_id |-> id, ok |-> TRUE]

\* SeriesMap::insert_series: the map after it, the id given to the point and
\* whether it returned Ok
InsertSeries(db, point) ==
    IF point.series \in DOMAIN db.series_key_to_id
    THEN [db |-> db, series_id |-> db.series_key_to_id[point.series], ok |-> TRUE]
    ELSE LET id == db.last_id + 1
             db1 == [db EXCEPT
                       !.last_id = id,
                       !.series_key_to_id = MapInsert(@, point.series, id),
                       !.series_id_to_key_and_type =
                           MapInsert(@, id, [key |-> point.series, type |-> point.type]),
                       !.map_size = @ + Len(point.series) * SERIES_KEY_COPIES
                                      + SERIES_ID_BYTES]
             ip == IndexPairs(point.series)
         IN  IF ~ip.ok THEN [db |-> db1, series_id |-> id, ok |-> FALSE]
             ELSE [db |-> InsertPairs(db1, ip.pairs), series_id |-> id, ok |-> TRUE]

\* a push that puts the point in front of the buffer
PushPointInFront(series, id, point) ==
    MapInsert(series, id,
              IF id \in DOMAIN series THEN <<point>> \o series[id] ELSE <<point>>)

\* buff.values.push(point), or a new buffer of the one point
PushPoint(series, id, point) ==
    MapInsert(series, id,
              IF id \in DOMAIN series THEN Append(series[id], point) ELSE <<point>>)

\* a write that starts a new buffer every time
PointWriteNewBuffer(db, point, id) ==
    IF point.type = "I64"
    THEN [db EXCEPT !.data_size = @ + ReadPointI64Bytes,
                    !.i64_series = MapInsert(@, id, <<ReadPoint(point.value, point.time)>>)]
    ELSE [db EXCEPT !.data_size = @ + PointF64Bytes,
                    !.f64_series = MapInsert(@, id, <<ReadPoint(point.value, point.time)>>)]

\* StoreInSeriesData::write of a PointType whose series_id is id
PointWrite(db, point, id) ==
    IF point.type = "I64"
    THEN [db EXCEPT !.data_size = @ + ReadPointI64Bytes,
                    !.i64_series = PushPoint(@, id, ReadPoint(point.value, point.time))]
    ELSE [db EXCEPT !.data_size = @ + PointF64Bytes,
                    !.f64_series = PushPoint(@, id, ReadPoint(point.value, point.time))]

RECURSIVE MemDBWrite(_, _)
\* MemDB::write: the MemDB after it, whether it returned Ok and the number of
\* points its loop went through before it returned
MemDBWrite(db, points) ==
    IF points = <<>> THEN [db |-> db, ok |-> TRUE, stored |-> 0]
    ELSE LET ins == InsertSeries(db, Head(points))
         IN  IF ~ins.ok THEN [db |-> ins.db, ok |-> FALSE, stored |-> 0]
             ELSE LET rest == MemDBWrite(PointWrite(ins.db, Head(points), ins.series_id),
                                         Tail(points))
                  IN  [rest EXCEPT !.stored = @ + 1]

----------------------------------------------------------------------------
(* MemDB::read *)

TimestampRange(start, end) == [start |-> start, end |-> end]

\* Iterator::position of the first value whose time is at least t, counted
\* from 0; -1 for None
PositionAtLeast(values, t) ==
    IF \E n \in 1..Len(values) : values[n].time >= t
    THEN (CHOOSE n \in 1..Len(values) :
             /\ values[n].time >= t
             /\ \A k \in 1..(n - 1) : values[k].time < t) - 1
    ELSE -1

\* a stop position that lets the points at range.end in
StopPositionClosed(values, t) == PositionAtLeast(values, t + 1)

\* the stop position of SeriesBuffer::read
StopPosition(values, t) == PositionAtLeast(values, t)

\* SeriesBuffer::read: the slice, or the panic of values[start..stop] when
\* start is above stop
SeriesBufferRead(values, range) ==
    LET start == PositionAtLeast(values, range.start)
        stop0 == StopPosition(values, range.end)
        stop == IF stop0 < 0 THEN Len(values) ELSE stop0
    IN  IF start < 0 THEN [panic |-> FALSE, values |-> <<>>]
        ELSE IF start > stop THEN [panic |-> TRUE, values |-> <<>>]
        ELSE [panic |-> FALSE, values |-> SubSeq(values, start + 1, stop)]

\* the predicate nodes: Equal(key, value), And, Or and a node of another shape
Equal(k, v) == [op |-> "Equal", key |-> k, value |-> v]
Logical(op, l, r) == [op |-> op, left |-> l, right |-> r]

\* a lookup that takes the ids of every value of the key
PostingListForKey(db, key, value) ==
    UNION {db.posting_list[lk] : lk \in {x \in DOMAIN db.posting_list : x[1] = key}}

\* a lookup that answers a pair without posting list with every id
PostingListMissIsEverySeries(db, key, value) ==
    IF ListKey(key, value) \in DOMAIN db.posting_list
    THEN db.posting_list[ListKey(key, value)]
    ELSE 1..db.last_id

\* SeriesMap::posting_list_for_key_value
PostingListForKeyValue(db, key, value) ==
    IF ListKey(key, value) \in DOMAIN db.posting_list
    THEN db.posting_list[ListKey(key, value)]
    ELSE {}

StorageError(d) == [kind |-> "err", description |-> d]

RECURSIVE Evaluate(_, _)
\* evaluate_node: the id set of the node, or the error of a node that is
\* not Equal, And or Or
Evaluate(db, n) ==
    CASE n.op = "Equal" -> [ok |-> TRUE, ids |-> PostingListForKeyValue(db, n.key, n.value)]
      [] n.op \in {"And", "Or"} ->
            LET l == Evaluate(db, n.left)
                r == Evaluate(db, n.right)
            IN  IF ~l.ok THEN l
                ELSE IF ~r.ok THEN r
                ELSE [ok |-> TRUE,
                      ids |-> IF n.op = "And" THEN l.ids \cap r.ids ELSE l.ids \cup r.ids]
      [] OTHER -> [ok |-> FALSE, ids |-> {}]

\* the Treemap a visitor of the evaluator holds: its ids and, when it is not
\* a copy, the list_key of the stored posting list it is
Treemap(ids, alias) == [ids |-> ids, alias |-> alias]

\* a lookup that hands out the stored posting list itself
PostingListShared(db, key, value) ==
    IF ListKey(key, value) \in DOMAIN db.posting_list
    THEN Treemap(db.posting_list[ListKey(key, value)], <<ListKey(key, value)>>)
    ELSE Treemap({}, <<>>)

\* Visitor::equal: `m.clone()` of the stored posting list, or a new Treemap
PostingListCopy(db, key, value) == Treemap(PostingListForKeyValue(db, key, value), <<>>)

\* And and Or combine the right operand into the left one; a left operand
\* that is a stored posting list is altered in the map
CombineInto(db, op, l, r) ==
    LET ids == IF op = "And" THEN l.ids \cap r.ids ELSE l.ids \cup r.ids
    IN  [ok |-> TRUE, map |-> Treemap(ids, l.alias),
         db |-> IF l.alias = <<>> THEN db
                ELSE [db EXCEPT !.posting_list = MapInsert(@, l.alias[1], ids)]]

RECURSIVE EvaluateOn(_, _)
\* evaluate_node with the partition it leaves behind
EvaluateOn(db, n) ==
    CASE n.op = "Equal" -> [ok |-> TRUE, map |-> PostingListCopy(db, n.key, n.value), db |-> db]
      [] n.op \in {"And", "Or"} ->
            LET l == EvaluateOn(db, n.left)
            IN  IF ~l.ok THEN l
                ELSE LET r == EvaluateOn(l.db, n.right)
                     IN  IF ~r.ok THEN r
                         ELSE CombineInto(r.db, n.op, l.map, r.map)
      [] OTHER -> [ok |-> FALSE, map |-> Treemap({}, <<>>), db |-> db]

\* the partition after MemDB::read, which has it as &self
MemDBAfterRead(db, predicate, range) ==
    IF predicate = <<>> THEN db ELSE EvaluateOn(db, predicate[1]).db

\* the values of series id over the range, read from the buffer of the
\* recorded type: "panic" when an unwrap or the slice panics
ReadSeries(db, id, range) ==
    IF id \notin DOMAIN db.series_id_to_key_and_type THEN [kind |-> "panic"]
    ELSE LET kt == db.series_id_to_key_and_type[id]
             series == IF kt.type = "I64" THEN db.i64_series ELSE db.f64_series
         IN  IF id \notin DOMAIN series THEN [kind |-> "panic"]
             ELSE LET r == SeriesBufferRead(series[id], range)
                  IN  IF r.panic THEN [kind |-> "panic"]
                      ELSE [kind |-> "ok", batch |-> ReadBatch(kt.key, kt.type, r.values)]

\* a read that keeps the empty batches
SkipsBatchNever(values) == FALSE

\* the `if values.is_empty() { continue; }` of MemDB::read
SkipsBatch(values) == IsEmptyValues(values)

RECURSIVE ReadBatches(_, _, _)
\* the loop of MemDB::read over the ids, in the order map.iter() gives them
ReadBatches(db, ids, range) ==
    IF ids = <<>> THEN [kind |-> "ok", batches |-> <<>>]
    ELSE LET one == ReadSeries(db, Head(ids), range)
         IN  IF one.kind = "panic" THEN one
             ELSE LET rest == ReadBatches(db, Tail(ids), range)
                  IN  IF rest.kind = "panic" THEN rest
                      ELSE IF SkipsBatch(one.batch.values) THEN rest
                      ELSE [kind |-> "ok", batches |-> <<one.batch>> \o rest.batches]

\* a read that takes a predicate without root as matching every series
MemDBReadNoRootMatchesAll(db, predicate, range) ==
    IF predicate = <<>>
    THEN ReadBatches(db, Ascending(DOMAIN db.series_id_to_key_and_type
                                      \cap (DOMAIN db.i64_series \cup DOMAIN db.f64_series)),
                     TimestampRange(0, MdMaxTime + 1))
    ELSE LET map == Evaluate(db, predicate[1])
         IN  IF ~map.ok THEN StorageError("unsupported predicate")
             ELSE ReadBatches(db, Ascending(map.ids), range)

\* MemDB::read; the predicate is <<>> (no root) or <<root>>
MemDBRead(db, predicate, range) ==
    IF predicate = <<>> THEN StorageError("expected root node to evaluate")
    ELSE LET map == Evaluate(db, predicate[1])
         IN  IF ~map.ok THEN StorageError("unsupported predicate")
             ELSE ReadBatches(db, Ascending(map.ids), range)

----------------------------------------------------------------------------
(* The calls on a MemDB.  The caller makes one call at a time and drops    *)
(* what the call returned before it makes the next one.                    *)

MdState == MemDB(mdLastId, mdKeyToId, mdIdToKeyType, mdTagKeys, mdPosting, mdMapSize,
                 mdI64, mdF64, mdDataSize)

\* the variables of the MemDB are those of db
MdBecomes(db) ==
    /\ mdLastId' = db.last_id
    /\ mdKeyToId' = db.series_key_to_id
    /\ mdIdToKeyType' = db.series_id_to_key_and_type
    /\ mdTagKeys' = db.tag_keys
    /\ mdPosting' = db.posting_list
    /\ mdMapSize' = db.map_size
    /\ mdI64' = db.i64_series
    /\ mdF64' = db.f64_series
    /\ mdDataSize' = db.data_size

MdTimes == 0..MdMaxTime

\* the ranges read: every start and end, also an end below the start
MdRanges == {TimestampRange(a, b) : a \in 0..(MdMaxTime + 1), b \in 0..(MdMaxTime + 1)}

MdLeaves == {Equal("_m", "cpu"), Equal("host", "a"), Equal("host", "b"), Equal("host", "c")}

\* trees of depth two over the leaves
MdNested ==
    {Logical("And", Logical("Or", Equal("host", "a"), Equal("host", "b")), Equal("_m", "cpu")),
     Logical("And", Equal("_m", "cpu"), Logical("Or", Equal("host", "a"), Equal("host", "b"))),
     Logical("Or", Logical("And", Equal("_m", "cpu"), Equal("host", "a")), Equal("host", "b")),
     Logical("Or", Equal("host", "b"), Logical("And", Equal("_m", "cpu"), Equal("host", "a")))}

\* no root, a leaf, And or Or of two leaves, a deeper tree, or a node of
\* another shape
MdPredicates ==
    {<<>>, <<Logical("Not", Equal("host", "a"), Equal("host", "a"))>>}
    \cup {<<l>> : l \in MdLeaves}
    \cup {<<Logical(op, l, r)>> : op \in {"And", "Or"}, l \in MdLeaves, r \in MdLeaves}
    \cup {<<n>> : n \in MdNested}

\* the strings the tag dictionary can hold, in the byte order of String's Ord
\* ('_' is 0x5F, the digits and the letters a..z are 0x30.. and 0x61..)
StringOrder == <<"_f", "_m", "a", "b", "cpu", "free", "host", "mem", "user">>

\* BTreeMap::keys: the keys in ascending order
BTreeKeys(map) == SelectSeq(StringOrder, LAMBDA s : s \in DOMAIN map)

\* MemDB::get_tag_keys: the stream it returns, as the sequence of its items
MemDBGetTagKeys(db, range, predicate) == [kind |-> "ok", keys |-> BTreeKeys(db.tag_keys)]

\* the predicates get_tag_keys is called with: no root, a leaf, a tree, a node
\* of another shape
MdTagKeyPredicates ==
    {<<>>, <<Equal("host", "a")>>, <<Logical("Not", Equal("host", "a"), Equal("host", "a"))>>,
     <<Logical("And", Equal("_m", "cpu"), Equal("host", "b"))>>}

\* MemDB::new
MdStart ==
    /\ mdLastId = MemDBNew.last_id
    /\ mdKeyToId = MemDBNew.series_key_to_id
    /\ mdIdToKeyType = MemDBNew.series_id_to_key_and_type
    /\ mdTagKeys = MemDBNew.tag_keys
    /\ mdPosting = MemDBNew.posting_list
    /\ mdMapSize = MemDBNew.map_size
    /\ mdI64 = MemDBNew.i64_series
    /\ mdF64 = MemDBNew.f64_series
    /\ mdDataSize = MemDBNew.data_size
    /\ mdSubmitted = 0
    /\ mdWritten = <<>>
    /\ mdOp = [op |-> "none"]
    /\ mdRet = [kind |-> "none"]

\* MemDB::write of 1..MdMaxBatch points; the value of a point is its number
\* among the points submitted
MdWrite ==
    \E n \in 1..MdMaxBatch :
        /\ mdOp.op = "none"
        /\ mdSubmitted + n <= MdMaxPoints
        /\ \E args \in [1..n -> MdKeys \X ValueTypes \X MdTimes] :
              LET points == [k \in 1..n |->
                                PointType(args[k][2], args[k][1], mdSubmitted + k,
                                          args[k][3])]
              IN  \E r \in {MemDBWrite(MdState, points)} :
                     /\ MdBecomes(r.db)
                     /\ mdSubmitted' = mdSubmitted + n
                     /\ mdWritten' = mdWritten \o SubSeq(points, 1, r.stored)
                     /\ mdOp' = [op |-> "write", points |-> points]
                     /\ mdRet' = IF r.ok THEN [kind |-> "ok"]
                                 ELSE StorageError("error parsing line protocol metadata")

\* MemDB::read
MdRead ==
    \E predicate \in MdPredicates, range \in MdRanges :
        /\ mdOp.op = "none"
        /\ mdOp' = [op |-> "read", predicate |-> predicate, range |-> range]
        /\ mdRet' = MemDBRead(MdState, predicate, range)
        /\ MdBecomes(MemDBAfterRead(MdState, predicate, range))
        /\ UNCHANGED <<mdSubmitted, mdWritten>>

\* MemDB::get_tag_values: the stream it returns, as the sequence of its items;
\* the values of a tag key are the keys of a BTreeMap
MemDBGetTagValues(db, tag_key, range, predicate) ==
    IF tag_key \in DOMAIN db.tag_keys
    THEN [kind |-> "ok",
          values |-> SelectSeq(StringOrder, LAMBDA s : s \in db.tag_keys[tag_key])]
    ELSE [kind |-> "ok", values |-> <<>>]

\* the tag keys get_tag_values is called with: those of the tests and one
\* that no series has
MdTagValueKeys == {"host", "_m", "region"}

\* the ranges and predicates get_tag_values is called with
MdTagValueRanges == {TimestampRange(0, 0), TimestampRange(0, MdMaxTime + 1)}
MdTagValuePredicates == {<<>>, <<Equal("host", "a")>>}

MdGetTagValues ==
    \E tag_key \in MdTagValueKeys, predicate \in MdTagValuePredicates,
       range \in MdTagValueRanges :
        /\ mdOp.op = "none"
        /\ mdOp' = [op |-> "get_tag_values", tag_key |-> tag_key,
                    predicate |-> predicate, range |-> range]
        /\ mdRet' = MemDBGetTagValues(MdState, tag_key, range, predicate)
        /\ UNCHANGED <<mdLastId, mdKeyToId, mdIdToKeyType, mdTagKeys, mdPosting,
                       mdMapSize, mdI64, mdF64, mdDataSize, mdSubmitted, mdWritten>>

MdGetTagKeys ==
    \E predicate \in MdTagKeyPredicates, range \in MdRanges :
        /\ mdOp.op = "none"
        /\ mdOp' = [op |-> "get_tag_keys", predicate |-> predicate, range |-> range]
        /\ mdRet' = MemDBGetTagKeys(MdState, range, predicate)
        /\ UNCHANGED <<mdLastId, mdKeyToId, mdIdToKeyType, mdTagKeys, mdPosting,
                       mdMapSize, mdI64, mdF64, mdDataSize, mdSubmitted, mdWritten>>

\* the caller drops what the call returned: the Result of write, the stream
\* of read
MdDrop ==
    /\ mdOp.op # "none"
    /\ mdOp' = [op |-> "none"]
    /\ mdRet' = [kind |-> "none"]
    /\ UNCHANGED <<mdLastId, mdKeyToId, mdIdToKeyType, mdTagKeys, mdPosting,
                   mdMapSize, mdI64, mdF64, mdDataSize, mdSubmitted, mdWritten>>

\* no call on the MemDB
MdIdle == MdStart

----------------------------------------------------------------------------
(* SeriesBuffer::read on a buffer of its own *)

\* a buffer has 0..SbMaxLen values
SbMaxLen == 3
\* with times 0..SbMaxTime; the ranges read are over 0..SbMaxTime+1
SbMaxTime == 2

RECURSIVE TimesUpTo(_)
TimesUpTo(n) ==
    IF n = 0 THEN {<<>>}
    ELSE TimesUpTo(n - 1) \cup [1..n -> 0..SbMaxTime]

\* the buffers: any times, the value of a point is its place in the buffer
SbBuffers == {[k \in 1..Len(t) |-> ReadPoint(k, t[k])] : t \in TimesUpTo(SbMaxLen)}

SbStart ==
    /\ sbValues \in SbBuffers
    /\ sbRange \in {TimestampRange(a, b) : a \in 0..(SbMaxTime + 1), b \in 0..(SbMaxTime + 1)}
    /\ sbRet = <<>>

SbRead ==
    /\ sbRet = <<>>
    /\ sbRet' = <<SeriesBufferRead(sbValues, sbRange)>>
    /\ UNCHANGED <<sbValues, sbRange>>

SbIdle ==
    /\ sbValues = <<>>
    /\ sbRange = TimestampRange(0, 0)
    /\ sbRet = <<>>

----------------------------------------------------------------------------
(* The HTTP service: service matches the method and the path of a request  *)
(* against its arms in the order they are written, awaits the handler and  *)
(* maps what it returns onto a response.  Each call of service is a task   *)
(* of its own: it is suspended at the awaits of its handler while other    *)
(* requests are served, and a panic of the handler ends it without a       *)
(* response.  What an await gives depends on the request and on the        *)
(* database; the model takes any of the ways the handler's code can go on.  *)

\* the requests made in a run
HtMaxRequests == 2

HtMethods == {"GET", "POST", "PUT"}
HtPaths == {"/api/v2/write", "/api/v2/buckets", "/ping", "/api/v2/read",
            "/api/v1/partitions", "/api/v1/snapshot", "/", "/api/v2/other"}

Request(method, path) == [method |-> method, path |-> path]

Arm(method, path, handler) == [method |-> method, path |-> path, handler |-> handler]

\* the arms of the match of service, in the order of the source; "_" is the
\* wildcard pattern
ServiceArms ==
    <<Arm("POST", "/api/v2/write", "write"),
      Arm("POST", "/api/v2/buckets", "no_op"),
      Arm("GET", "/ping", "ping"),
      Arm("GET", "/api/v2/read", "read"),
      Arm("_", "_", "RouteNotFound"),
      Arm("GET", "/api/v1/partitions", "list_partitions"),
      Arm("GET", "/api/v1/snapshot", "snapshot_partition")>>

\* the pattern of an arm matches the request
ArmMatches(arm, req) ==
    \/ arm.method = "_" /\ arm.path = "_"
    \/ arm.method = req.method /\ arm.path = req.path

\* `match`: the first arm whose pattern matches is taken
FirstMatch(arms, req) ==
    arms[CHOOSE n \in 1..Len(arms) :
            /\ ArmMatches(arms[n], req)
            /\ \A h \in 1..(n - 1) : ~ArmMatches(arms[h], req)].handler

OkSome == [kind |-> "ok_some", err |-> ""]
OkNone == [kind |-> "ok_none", err |-> ""]
Err(e) == [kind |-> "err", err |-> e]
\* the arm has not evaluated yet
NoResult == [kind |-> "none", err |-> ""]
\* the handler panicked: the arm evaluates to nothing
Panicked == [kind |-> "panic", err |-> ""]

\* the ways a handler goes on: it is suspended at an await, it returns, or
\* it panics
At(pc) == [pc |-> pc, result |-> NoResult]
Return(r) == [pc |-> "done", result |-> r]
Panic == [pc |-> "panicked", result |-> Panicked]

\* the errors of the query string, returned before the first await
QueryStringErrors == {Return(Err("ExpectedQueryString")), Return(Err("InvalidQueryString"))}

\* write: from its call to its first await, and from each await on.  The
\* content encoding is looked at when db_or_create has returned; a chunk of
\* the body that is an error panics (`chunk.expect`), the end of the body
\* leads to the decoding and the parsing.
WriteSteps(pc) ==
    CASE pc = "start" -> QueryStringErrors \cup {At("db_or_create")}
      [] pc = "db_or_create" ->
           {Return(Err("BucketByName")), Return(Err("ReadingHeaderAsUtf8")),
            Return(Err("InvalidContentEncoding")), At("body")}
      [] pc = "body" ->
           {Panic, Return(Err("RequestSizeExceeded")), Return(Err("CreatingGzipDecoder")),
            Return(Err("ReadingBodyAsGzip")), Return(Err("ReadingBodyAsUtf8")),
            Return(Err("ParsingLineProtocol")), At("write_lines")}
      [] pc = "write_lines" -> {Return(Err("WritingPoints")), Return(OkNone)}

\* read; pretty_format_batches(..).unwrap() panics on an error
ReadSteps(pc) ==
    CASE pc = "start" -> QueryStringErrors \cup {At("db")}
      [] pc = "db" -> {Return(Err("BucketNotFound")), At("query")}
      [] pc = "query" -> {Return(Err("QueryError")), Panic, Return(OkSome)}

\* list_partitions
ListPartitionsSteps(pc) ==
    CASE pc = "start" -> QueryStringErrors \cup {At("db")}
      [] pc = "db" -> {Return(Err("BucketNotFound")), At("partition_keys")}
      [] pc = "partition_keys" ->
           {Return(Err("DatabaseError")), Return(Err("JsonGenerationError")), Return(OkSome)}

\* snapshot_partition: the loop over the tables awaits the table's batch and
\* the put of its file, then the meta data is put; the unwraps and the
\* expect of the loop and of the puts panic
SnapshotPartitionSteps(pc) ==
    CASE pc = "start" -> QueryStringErrors \cup {At("db")}
      [] pc = "db" -> {Return(Err("BucketNotFound")), At("table_names")}
      [] pc = "table_names" ->
           {Return(Err("DatabaseError")), At("table_to_arrow"),
            Return(Err("JsonGenerationError")), At("put_meta")}
      [] pc = "table_to_arrow" -> {Return(Err("DatabaseError")), Panic, At("put_table")}
      [] pc = "put_table" ->
           {Panic, At("table_to_arrow"), Return(Err("JsonGenerationError")), At("put_meta")}
      [] pc = "put_meta" -> {Panic, Return(OkSome)}

\* the arm of a handler from pc to its next await or to its end; ping, no_op
\* and the wildcard arm have no await
HandlerSteps(handler, pc) ==
    CASE handler = "write" -> WriteSteps(pc)
      [] handler = "no_op" -> {Return(OkNone)}
      [] handler = "ping" -> {Return(OkSome)}
      [] handler = "read" -> ReadSteps(pc)
      [] handler = "list_partitions" -> ListPartitionsSteps(pc)
      [] handler = "snapshot_partition" -> SnapshotPartitionSteps(pc)
      [] handler = "RouteNotFound" -> {Return(Err("RouteNotFound"))}

INTERNAL_SERVER_ERROR == 500
BAD_REQUEST == 400
NOT_FOUND == 404
NO_CONTENT == 204
OK == 200

\* ApplicationError::status_code
StatusCodeOf(e) ==
    CASE e \in {"BucketByName", "WritingPoints", "Query", "CreatingGzipDecoder", "DatabaseError",
                "JsonGenerationError"} -> INTERNAL_SERVER_ERROR
      [] e \in {"BucketNotFound", "RouteNotFound"} -> NOT_FOUND
      [] OTHER -> BAD_REQUEST

\* the status of the response service builds from what the arm evaluated to;
\* 0 while there is no response
ResponseStatus(response) ==
    CASE response.kind = "ok_some" -> OK
      [] response.kind = "ok_none" -> NO_CONTENT
      [] response.kind = "err" -> StatusCodeOf(response.err)
      [] OTHER -> 0

\* a call of service: the request, the arm taken and how far the call is
Call(req, handler, step) ==
    [method |-> req.method, path |-> req.path, handler |-> handler, pc |-> step.pc,
     result |-> step.result, status |-> ResponseStatus(step.result)]

\* the server before its first request
HtStart == htReqs = <<>>

\* service is called with a request and runs to its first await or to its
\* response
HtService ==
    \E method \in HtMethods, path \in HtPaths :
        /\ Len(htReqs) < HtMaxRequests
        /\ \E handler \in {FirstMatch(ServiceArms, Request(method, path))} :
              \E step \in HandlerSteps(handler, "start") :
                 htReqs' = Append(htReqs, Call(Request(method, path), handler, step))

\* a suspended call of service is polled again and runs to its next await,
\* to its response or to the panic of its handler
HtResume ==
    \E n \in 1..Len(htReqs) :
        /\ htReqs[n].pc \notin {"done", "panicked"}
        /\ \E step \in HandlerSteps(htReqs[n].handler, htReqs[n].pc) :
              htReqs' = [htReqs EXCEPT ![n] = Call(Request(htReqs[n].method, htReqs[n].path),
                                                   htReqs[n].handler, step)]

\* no request
HtIdle == HtStart

----------------------------------------------------------------------------
(* The specifications *)

SMInit == SMStart /\ RMIdle /\ CvIdle /\ MdIdle /\ SbIdle /\ HtIdle
SMNext == SMPoll /\ UNCHANGED <<rmVars, cvVars, mdVars, sbVars, htVars>>
SpecSM == SMInit /\ [][SMNext]_vars

RMInit == RMStart /\ SMIdle /\ CvIdle /\ MdIdle /\ SbIdle /\ HtIdle
RMNext == RMPoll /\ UNCHANGED <<smVars, cvVars, mdVars, sbVars, htVars>>
SpecRM == RMInit /\ [][RMNext]_vars

\* either merge stream: a run is of a StringMergeStream or of a ReadMergeStream
SMActive == smIn # <<>>
RMActive == rmTypes # <<>>
MergeInit == SMInit \/ RMInit
MergeNext ==
    \/ SMActive /\ SMNext
    \/ RMActive /\ RMNext
SpecMerge == MergeInit /\ [][MergeNext]_vars

\* either merge stream, the StringMergeStream over the strings 1..SMFairStr.
\* The consumer of a StringMergeStream polls again and again and its pending
\* inputs become ready: a call of poll_next that would change the stream is
\* not put off for ever. The inputs of a ReadMergeStream are not bounded in
\* the model, and what is assumed of them is stated with the property.
SMFairStr == 2
SMFairStreams == {s \in SMStreams : \A j \in 1..Len(s) : s[j] <= SMFairStr}
MergeFairInit ==
    \/ SMInit /\ smIn \in [SMIdx -> SMFairStreams]
    \/ RMInit
MergeFairness == WF_vars(SMActive /\ SMNext)
SpecMergeFair == MergeFairInit /\ [][MergeNext]_vars /\ MergeFairness

\* either merge stream over fixed inputs, which answer Pending at will
RMFixed == rmIn # <<>>
FixedInit ==
    \/ SMInit
    \/ RMFixedStart /\ SMIdle /\ CvIdle /\ MdIdle /\ SbIdle /\ HtIdle
FixedNext ==
    \/ SMActive /\ SMNext
    \/ RMFixed /\ RMFixedPoll /\ UNCHANGED <<smVars, cvVars, mdVars, sbVars, htVars>>
SpecFixed == FixedInit /\ [][FixedNext]_vars

ConvInit == CvStart /\ SMIdle /\ RMIdle /\ MdIdle /\ SbIdle /\ HtIdle
ConvNext ==
    \/ CvConvert /\ UNCHANGED <<smVars, rmVars, mdVars, sbVars, htVars>>
    \/ CvSend /\ UNCHANGED <<smVars, rmVars, mdVars, sbVars, htVars>>
    \/ CvSendErr /\ UNCHANGED <<smVars, rmVars, mdVars, sbVars, htVars>>
    \/ CvDropConverter /\ UNCHANGED <<smVars, rmVars, mdVars, sbVars, htVars>>
    \/ CvRecv /\ UNCHANGED <<smVars, rmVars, mdVars, sbVars, htVars>>
    \/ CvDropRx /\ UNCHANGED <<smVars, rmVars, mdVars, sbVars, htVars>>
SpecConv == ConvInit /\ [][ConvNext]_vars

\* the steps of the converter's task: it is one sequential process
CvTask == CvConvert \/ CvSend \/ CvSendErr \/ CvDropConverter

\* the conversions of the fair runs: on no tag column, on one or two string
\* columns, on a column that is not a string column and on a missing one;
\* the readers yield nothing, an error, one batch or two
CvFairTags == {<<>>, <<"tag_a">>, <<"tag_a", "tag_b">>, <<"int_field">>, <<"missing">>}
\* rows that differ in the first tag column only
CvFairRows == {<<a, "ten", 0, 0>> : a \in {"one", "two"}}
CvFairBatches == [schema : {TestSchema, NoTimeSchema}, rows : SeqsUpTo(CvFairRows, CvMaxRows)]
CvFairReaders ==
    {<<>>, <<ItemErr>>}
    \cup {<<ItemOk(b)>> : b \in CvFairBatches}
    \cup {<<ItemOk(b), ItemOk(b)>> : b \in {c \in CvFairBatches : c.rows = <<>>}}
ConvFairInit ==
    /\ ConvInit
    /\ cvTags \in CvFairTags
    /\ cvFields = <<"int_field">>
    /\ cvIt \in CvFairReaders

\* the converter's task and the consumer are scheduled: convert runs on to
\* its next await and a send that can complete does so, the converter is
\* dropped when its task has ended (the `async move` block of
\* tests::convert), and the consumer that has not dropped its end calls recv
\* again (`while let Some(r) = rx.recv().await`)
ConvFairness ==
    /\ WF_vars(CvTask /\ UNCHANGED <<smVars, rmVars, mdVars, sbVars, htVars>>)
    /\ WF_vars(CvRecv /\ UNCHANGED <<smVars, rmVars, mdVars, sbVars, htVars>>)
SpecConvFair == ConvFairInit /\ [][ConvNext]_vars /\ ConvFairness

MemInit == MdStart /\ SMIdle /\ RMIdle /\ CvIdle /\ SbIdle /\ HtIdle
MemNext ==
    \/ MdWrite /\ UNCHANGED <<smVars, rmVars, cvVars, sbVars, htVars>>
    \/ MdRead /\ UNCHANGED <<smVars, rmVars, cvVars, sbVars, htVars>>
    \/ MdGetTagKeys /\ UNCHANGED <<smVars, rmVars, cvVars, sbVars, htVars>>
    \/ MdGetTagValues /\ UNCHANGED <<smVars, rmVars, cvVars, sbVars, htVars>>
    \/ MdDrop /\ UNCHANGED <<smVars, rmVars, cvVars, sbVars, htVars>>
SpecMem == MemInit /\ [][MemNext]_vars

HttpInit == HtStart /\ SMIdle /\ RMIdle /\ CvIdle /\ MdIdle /\ SbIdle
HttpNext ==
    \/ HtService /\ UNCHANGED <<smVars, rmVars, cvVars, mdVars, sbVars>>
    \/ HtResume /\ UNCHANGED <<smVars, rmVars, cvVars, mdVars, sbVars>>
SpecHttp == HttpInit /\ [][HttpNext]_vars

BufInit == SbStart /\ SMIdle /\ RMIdle /\ CvIdle /\ MdIdle /\ HtIdle
BufNext == SbRead /\ UNCHANGED <<smVars, rmVars, cvVars, mdVars, htVars>>
SpecBuf == BufInit /\ [][BufNext]_vars

----------------------------------------------------------------------------
(* Properties of StringMergeStream, under SpecSM *)

Range(s) == {s[i] : i \in 1..Len(s)}

SMInputValues == UNION {Range(smIn[i]) : i \in SMIdx}

\* C1: for strictly ascending input streams (empty ones included), the values
\* emitted so far are strictly ascending (so no value is emitted twice, also
\* when several inputs hold it) and are values of the inputs; once
\* end-of-stream is emitted they are exactly the union of the inputs' values.
C1_SortedUnion ==
    /\ StrictlyAscending(smOut)
    /\ Range(smOut) \subseteq SMInputValues
    /\ smDrained => Range(smOut) = SMInputValues

\* C1 witness: end-of-stream after three values were emitted, one of which all
\* three inputs held and another only one input
C1_Witness ==
    /\ smDrained
    /\ Len(smOut) = 3
    /\ \E v \in Range(smOut) : \A i \in SMIdx : v \in Range(smIn[i])
    /\ \E v \in Range(smOut) : Cardinality({i \in SMIdx : v \in Range(smIn[i])}) = 1

----------------------------------------------------------------------------
(* Properties of ReadMergeStream, under SpecRM *)

RECURSIVE BagOfSeq(_)
\* the elements of a sequence, with their multiplicities
BagOfSeq(s) == IF s = <<>> THEN EmptyBag
               ELSE BagOfSeq(Tail(s)) (+) SetToBag({Head(s)})

\* the (key, time, value) points of a batch
BatchPoints(b) ==
    [j \in 1..Len(b.values.vals) |->
        [key |-> b.key, time |-> b.values.vals[j].time, value |-> b.values.vals[j].value]]

\* the points a slot or a returned Poll holds
SlotPoints(p) == IF IsSome(p) THEN BagOfSeq(BatchPoints(p.val)) ELSE EmptyBag

RECURSIVE BagSum(_, _)
\* the sum of the bags f[1], ..., f[n]
BagSum(f, n) == IF n = 0 THEN EmptyBag ELSE BagSum(f, n - 1) (+) f[n]

\* the points buffered in the slots
HeldPoints(next) == BagSum([i \in RMIdx |-> SlotPoints(next[i])], RMInputs)

\* the points the input streams hand over to a poll_next that starts with
\* the slots next and has the slots heads after its first loop
PulledPoints(next, drained, heads) ==
    BagSum([i \in RMIdx |-> IF IsPending(next[i]) /\ ~drained
                            THEN SlotPoints(heads[i]) ELSE EmptyBag], RMInputs)

\* every poll_next emits or keeps in its slots exactly the points it held and
\* the points it pulled from the inputs
PointsConserved ==
    HeldPoints(rmNext) (+) PulledPoints(rmNext, rmDrained, rmHeads')
        = HeldPoints(rmNext') (+) SlotPoints(rmRet')

\* head batches that have the same key have the same value type
HeadTypesAgree(heads) ==
    \A i, j \in RMIdx :
        (IsSome(heads[i]) /\ IsSome(heads[j]) /\ heads[i].val.key = heads[j].val.key)
            => heads[i].val.values.type = heads[j].val.values.type

\* C2 as claimed: no poll_next drops, duplicates or moves a point (the points
\* emitted and the points still buffered are those pulled from the inputs),
\* and nothing is buffered when end-of-stream is emitted: the emitted points
\* are the multiset union of the input points, for any inputs.
C2_Original_PointsPreserved ==
    /\ [][PointsConserved]_vars
    /\ [](rmDrained => \A i \in RMIdx : rmNext[i] = ReadyNone)

\* C2 amended: the same, for every poll_next in which the head batches that
\* have the same key have the same value type.
C2_PointsPreservedSameType ==
    /\ [][HeadTypesAgree(rmHeads') => PointsConserved]_vars
    /\ [](rmDrained => \A i \in RMIdx : rmNext[i] = ReadyNone)

\* C2 witness: a batch was emitted that holds points of two input streams,
\* while the rest of a partly drained head stays buffered
C2_Witness ==
    /\ IsSome(rmRet)
    /\ HeadTypesAgree(rmHeads)
    /\ \E j, h \in 1..Len(rmRet.val.values.vals) :
          rmRet.val.values.vals[j].value # rmRet.val.values.vals[h].value
    /\ \E i \in RMIdx : IsSome(rmNext[i]) /\ IsSome(rmHeads[i])
                        /\ rmNext[i] # rmHeads[i]

\* <<key, time>> a is not after <<key, time>> b
KeyTimeLeq(a, b) == a[1] < b[1] \/ (a[1] = b[1] /\ a[2] <= b[2])

\* C3: while every input stream yields its batches in non-decreasing key
\* order with non-decreasing times within a key, each emitted batch has
\* non-decreasing times and starts at or after the <<key, last time>> of the
\* batch emitted before it: keys never decrease, and the points emitted for
\* one key have non-decreasing times across the batches.
C3_EmittedInKeyTimeOrder ==
    [][(rmInOrdered' /\ IsSome(rmRet')) =>
          /\ NonDecreasingTimes(rmRet'.val.values.vals)
          /\ rmLastOut # <<>> =>
                KeyTimeLeq(rmLastOut, <<rmRet'.val.key, StartStopTimes(rmRet'.val)[1]>>)]_vars

\* C3 witness: with ordered inputs, a batch merged from two streams was
\* emitted and a head of the same key stays buffered for a later batch
C3_Witness ==
    /\ rmInOrdered
    /\ IsSome(rmRet)
    /\ Len(rmRet.val.values.vals) >= 3
    /\ \E i \in RMIdx : IsSome(rmNext[i]) /\ rmNext[i].val.key = rmRet.val.key
                        /\ rmNext[i] # rmHeads[i]

\* ---- the step of C4, stated from the heads the selection loop saw

Min(S) == CHOOSE x \in S : \A y \in S : x <= y

HeadsAt(heads) == {i \in RMIdx : IsSome(heads[i])}
MinKey(heads) == Min({heads[i].val.key : i \in HeadsAt(heads)})
AtMinKey(heads) == {i \in HeadsAt(heads) : heads[i].val.key = MinKey(heads)}
LastTime(heads, i) == heads[i].val.values.vals[Len(heads[i].val.values.vals)].time
TStar(heads) == Min({LastTime(heads, i) : i \in AtMinKey(heads)})
Leader(heads) == Min({i \in AtMinKey(heads) : LastTime(heads, i) = TStar(heads)})

RECURSIVE SelectSeq2(_, _, _)
\* the subsequence of the points of s with time <= t (keep) or > t (~keep)
SelectSeq2(s, t, keep) ==
    IF s = <<>> THEN <<>>
    ELSE IF (Head(s).time <= t) = keep
         THEN <<Head(s)>> \o SelectSeq2(Tail(s), t, keep)
         ELSE SelectSeq2(Tail(s), t, keep)

\* the emitted batch and the slots left, as C4 states them
StepAsClaimed(heads, ret, next) ==
    LET lead == Leader(heads)
        t == TStar(heads)
        others == AtMinKey(heads) \ {lead}
        e == ret.val.values.vals
    IN  /\ IsSome(ret)
        /\ ret.val.key = MinKey(heads)
        /\ ret.val.values.type = heads[lead].val.values.type
        /\ BagOfSeq(e) =
              BagOfSeq(heads[lead].val.values.vals) (+)
              BagSum([i \in RMIdx |->
                        IF i \in others
                        THEN BagOfSeq(SelectSeq2(heads[i].val.values.vals, t, TRUE))
                        ELSE EmptyBag], RMInputs)
        /\ others # {} => NonDecreasingTimes(e)
        \* the sort is stable: on equal times the leader's points come first
        /\ \A a, b \in 1..Len(e) :
              (a < b /\ e[a].time = e[b].time /\ e[b].value = lead) => e[a].value = lead
        /\ others = {} => ret = heads[lead]
        /\ next[lead] = Pending
        /\ \A i \in others :
              LET left == SelectSeq2(heads[i].val.values.vals, t, FALSE)
              IN  next[i] = IF left = <<>> THEN Pending
                            ELSE ReadySome([heads[i].val EXCEPT !.values.vals = left])
        /\ \A i \in RMIdx \ AtMinKey(heads) : next[i] = heads[i]

\* the head batches at the minimum key have the same value type
MinKeyHeadTypesAgree(heads) ==
    \A i, j \in AtMinKey(heads) : heads[i].val.values.type = heads[j].val.values.type

\* the head batches at the minimum key have non-decreasing times
MinKeyHeadsSorted(heads) ==
    \A i \in AtMinKey(heads) : NonDecreasingTimes(heads[i].val.values.vals)

\* C4 as claimed: whenever poll_next emits a batch, the leader is the first
\* input among those at the minimum key whose head has the smallest last
\* timestamp t*, the batch is the leader's head plus exactly the points with
\* time <= t* of every other head at that key, sorted by time, the points
\* with time > t* stay as that input's head, and a lone head at the minimum
\* key is emitted unchanged.
C4_Original_Step ==
    IsSome(rmRet) => StepAsClaimed(rmHeads, rmRet, rmNext)

\* C4 amended: the same, when the heads at the minimum key have non-decreasing
\* times and the same value type.
C4_StepSortedSameType ==
    (IsSome(rmRet) /\ MinKeyHeadsSorted(rmHeads) /\ MinKeyHeadTypesAgree(rmHeads))
        => StepAsClaimed(rmHeads, rmRet, rmNext)

\* C4 witness: three heads at the minimum key, two of them tied for the
\* smallest last timestamp, and the third left with a residue
C4_Witness ==
    /\ IsSome(rmRet)
    /\ MinKeyHeadsSorted(rmHeads) /\ MinKeyHeadTypesAgree(rmHeads)
    /\ AtMinKey(rmHeads) = RMIdx
    /\ Cardinality({i \in RMIdx : LastTime(rmHeads, i) = TStar(rmHeads)}) = 2
    /\ \E i \in RMIdx : IsSome(rmNext[i])

----------------------------------------------------------------------------
(* Properties of SeriesSetConverter, under SpecConv *)

\* the SeriesSets the channel has accepted, in order
SentSets == SelectSeq(cvSent, LAMBDA m : m.ok)

\* the reader yields exactly one batch
SingleBatch == Len(cvIt) = 1 /\ cvIt[1].ok

\* convert has sent every SeriesSet of the batch and returned Ok
ConvertedAll == cvPc = "returned" /\ cvResult = "Ok" /\ cvErr = <<>>

\* a listed tag column differs between rows r-1 and r
TagChangeAt(batch, r) ==
    \E c \in 1..Len(cvTags) :
        Value(batch, IndexOf(batch.schema, cvTags[c]), r)
            # Value(batch, IndexOf(batch.schema, cvTags[c]), r - 1)

\* C5: for a single input batch of N rows, the SeriesSets sent so far start at
\* row 0 and each starts where the one before it ends; once convert has sent
\* them all, the last one ends at row N, so the rows 0..N-1 are covered
\* exactly once.
C5_CoverExactlyOnce ==
    SingleBatch =>
        LET sets == SentSets
            N == Len(cvIt[1].batch.rows)
        IN  /\ sets # <<>> => sets[1].set.start_row = 0
            /\ \A n \in 1..Len(sets) : sets[n].set.num_rows >= 0
            /\ \A n \in 2..Len(sets) :
                   sets[n].set.start_row
                       = sets[n - 1].set.start_row + sets[n - 1].set.num_rows
            /\ ConvertedAll =>
                   IF sets = <<>> THEN N = 0
                   ELSE sets[Len(sets)].set.start_row + sets[Len(sets)].set.num_rows = N

\* a batch of CvMaxRows rows was converted to several SeriesSets, all sent
C5_Witness ==
    /\ SingleBatch
    /\ Len(cvIt[1].batch.rows) = CvMaxRows
    /\ ConvertedAll
    /\ Len(SentSets) >= 2

\* C6: for a batch of at least one row, each SeriesSet sent has as tags the
\* values of the listed tag columns at its start_row, in the order of
\* tag_columns, and every row of its run has those values; once convert has
\* sent them all, the rows r > 0 where a SeriesSet starts are exactly the rows
\* where a listed tag column differs from row r-1, and with no tag column
\* there is one SeriesSet, with no tags.
C6_RunsOfEqualTags ==
    (SingleBatch /\ Len(cvIt[1].batch.rows) >= 1) =>
        LET sets == SentSets
            batch == cvIt[1].batch
            N == Len(batch.rows)
        IN  /\ \A n \in 1..Len(sets) :
                  LET ss == sets[n].set
                  IN  /\ Len(ss.tags) = Len(cvTags)
                      /\ \A c \in 1..Len(cvTags) :
                             /\ ss.tags[c][1] = cvTags[c]
                             /\ \A r \in ss.start_row..(ss.start_row + ss.num_rows - 1) :
                                    ss.tags[c][2]
                                        = Value(batch, IndexOf(batch.schema, cvTags[c]), r)
            /\ ConvertedAll =>
                  /\ {sets[n].set.start_row : n \in 1..Len(sets)} \ {0}
                         = {r \in 1..(N - 1) : TagChangeAt(batch, r)}
                  /\ cvTags = <<>> => Len(sets) = 1 /\ sets[1].set.tags = <<>>

\* three rows whose first listed tag column goes one, two, one were converted
\* on two tag columns
C6_Witness ==
    /\ SingleBatch
    /\ ConvertedAll
    /\ Len(cvTags) = 2
    /\ Len(cvIt[1].batch.rows) = 3
    /\ Len(SentSets) = 3
    /\ SentSets[1].set.tags[1] = SentSets[3].set.tags[1]

IsPrefix(s, t) == Len(s) <= Len(t) /\ s = SubSeq(t, 1, Len(s))

\* C7: the SeriesSets are sent in strictly ascending order of start_row, and
\* the consumer receives the items in the order they were sent, whatever the
\* capacity of the channel and the interleaving of the sends and the
\* receives; a consumer that receives until the channel is closed has
\* received every item sent.
C7_SentAndReceivedInOrder ==
    /\ \A n \in 2..Len(SentSets) :
           SentSets[n - 1].set.start_row < SentSets[n].set.start_row
    /\ IsPrefix(cvRecv, cvSent)
    /\ cvRxClosed => cvRecv = cvSent

\* three SeriesSets went through a channel of capacity 1 to a consumer that
\* received until the channel was closed
C7_Witness ==
    /\ cvCap = 1
    /\ cvRxClosed
    /\ Len(cvRecv) = 3
    /\ \A n \in 1..3 : cvRecv[n].ok

----------------------------------------------------------------------------
(* Properties of MemDB, under SpecMem *)

\* the caller holds what a read with a root returned
ReadReturned == mdOp.op = "read" /\ mdOp.predicate # <<>>

\* the ids the predicate of the read evaluates to
ReadIds == Evaluate(MdState, mdOp.predicate[1]).ids

\* the buffer of series id in the map of its recorded type, <<>> without one
RecordedBuffer(id) ==
    LET series == IF mdIdToKeyType[id].type = "I64" THEN mdI64 ELSE mdF64
    IN  IF id \in DOMAIN series THEN series[id] ELSE <<>>

\* the points write has stored under the key, in the order of the writes
WrittenUnder(key) == SelectSeq(mdWritten, LAMBDA p : p.series = key)

\* the returned batches hold w1 before w2 in a batch of the key
ReturnsInOrder(key, w1, w2) ==
    /\ mdRet.kind = "ok"
    /\ \E n \in 1..Len(mdRet.batches) :
          /\ mdRet.batches[n].key = key
          /\ \E a, b \in 1..Len(mdRet.batches[n].values.vals) :
                /\ a < b
                /\ mdRet.batches[n].values.vals[a] = ReadPoint(w1.value, w1.time)
                /\ mdRet.batches[n].values.vals[b] = ReadPoint(w2.value, w2.time)

\* w[a] was written before w[b] with a time not above its time, and the read
\* is over [w[a].time, w[b].time + 1) with a predicate that gives the series
TwoWritesRead(key, w, a, b) ==
    /\ a < b
    /\ w[a].time <= w[b].time
    /\ mdOp.range = TimestampRange(w[a].time, w[b].time + 1)
    /\ key \in DOMAIN mdKeyToId
    /\ mdKeyToId[key] \in ReadIds

\* C8 as stated: in every partition state, two points written under the same
\* series key, w1 before w2 with t1 <= t2, are both returned, w1 before w2, by
\* a read over [t1, t2+1) whose predicate matches the series.
C8_Original_WriteThenRead ==
    ReadReturned =>
        \A key \in MdKeys :
            LET w == WrittenUnder(key)
            IN  \A a, b \in 1..Len(w) :
                    TwoWritesRead(key, w, a, b) => ReturnsInOrder(key, w[a], w[b])

\* C8: when the points of the series were written in non-decreasing time
\* order and w1 and w2 have the value type recorded for the series, two points
\* written under the same series key, w1 before w2 with t1 <= t2, are both
\* returned, w1 before w2, by a read over [t1, t2+1) whose predicate matches
\* the series.
C8_WriteThenReadInTimeOrder ==
    ReadReturned =>
        \A key \in MdKeys :
            LET w == WrittenUnder(key)
            IN  \A a, b \in 1..Len(w) :
                    (/\ TwoWritesRead(key, w, a, b)
                     /\ NonDecreasingTimes(w)
                     /\ w[a].type = mdIdToKeyType[mdKeyToId[key]].type
                     /\ w[b].type = mdIdToKeyType[mdKeyToId[key]].type)
                        => ReturnsInOrder(key, w[a], w[b])

\* three points were written under a key in time order, the read is over the
\* range of the last two and returns those two and not the first
C8_Witness ==
    /\ ReadReturned
    /\ \E key \in MdKeys :
          LET w == WrittenUnder(key)
          IN  /\ Len(w) = 3
              /\ w[1].time < w[2].time
              /\ TwoWritesRead(key, w, 2, 3)
              /\ ReturnsInOrder(key, w[2], w[3])
              /\ ~ReturnsInOrder(key, w[1], w[2])

\* the slice of series id over the range of the read
SliceOf(id) == SeriesBufferRead(RecordedBuffer(id), mdOp.range).values

\* C10: a read that returns batches returns them in strictly ascending order
\* of series id, so at most one per series; the series of the batches are
\* exactly the series of the predicate's result whose slice over the range is
\* not empty, and each batch holds that slice, with the key and the type
\* recorded for the series; no batch is empty.
C10_OneBatchPerSeries ==
    (ReadReturned /\ mdRet.kind = "ok") =>
        LET batches == mdRet.batches
        IN  /\ \A n \in 1..Len(batches) :
                  /\ batches[n].key \in DOMAIN mdKeyToId
                  /\ batches[n].values.vals # <<>>
                  /\ batches[n].values.vals = SliceOf(mdKeyToId[batches[n].key])
                  /\ batches[n].values.type
                         = mdIdToKeyType[mdKeyToId[batches[n].key]].type
            /\ \A n \in 2..Len(batches) :
                  mdKeyToId[batches[n - 1].key] < mdKeyToId[batches[n].key]
            /\ {mdKeyToId[batches[n].key] : n \in 1..Len(batches)}
                   = {id \in ReadIds : SliceOf(id) # <<>>}

\* the predicate of a read gives two series, both have points in the range
\* and one of them has points outside it: two batches are returned
C10_Witness ==
    /\ ReadReturned
    /\ mdRet.kind = "ok"
    /\ Cardinality(ReadIds) = 2
    /\ Len(mdRet.batches) = 2
    /\ \E n \in 1..2 :
          Len(mdRet.batches[n].values.vals)
              < Len(RecordedBuffer(mdKeyToId[mdRet.batches[n].key]))

----------------------------------------------------------------------------
(* Properties of SeriesBuffer::read, under SpecBuf *)

\* time is in the half-open range
InRange(range, time) == range.start <= time /\ time < range.end

\* C9: for a buffer with non-decreasing times and a range with
\* start <= end, read returns exactly the buffer's points with
\* start <= time < end, in buffer order: nothing when the buffer is empty or
\* holds no time of the range.
C9_HalfOpenSlice ==
    (/\ sbRet # <<>>
     /\ NonDecreasingTimes(sbValues)
     /\ sbRange.start <= sbRange.end)
        => /\ ~sbRet[1].panic
           /\ sbRet[1].values = SelectSeq(sbValues, LAMBDA p : InRange(sbRange, p.time))

\* a sorted buffer of three points was read: one point is below the range,
\* one in it and one at its end
C9_Witness ==
    /\ sbRet # <<>>
    /\ Len(sbValues) = 3
    /\ sbValues[1].time < sbRange.start
    /\ InRange(sbRange, sbValues[2].time)
    /\ sbValues[3].time = sbRange.end
    /\ sbRet[1].values = <<sbValues[2]>>

----------------------------------------------------------------------------
(* Properties of the predicate evaluation, under SpecMem *)

\* the node is built from Equal, And and Or only
RECURSIVE IsBoolean(_)
IsBoolean(n) ==
    CASE n.op = "Equal" -> TRUE
      [] n.op \in {"And", "Or"} -> IsBoolean(n.left) /\ IsBoolean(n.right)
      [] OTHER -> FALSE

\* the tag pairs satisfy the node
RECURSIVE Satisfies(_, _)
Satisfies(pairs, n) ==
    CASE n.op = "Equal" ->
            \E c \in 1..Len(pairs) : pairs[c].key = n.key /\ pairs[c].value = n.value
      [] n.op = "And" -> Satisfies(pairs, n.left) /\ Satisfies(pairs, n.right)
      [] n.op = "Or" -> Satisfies(pairs, n.left) \/ Satisfies(pairs, n.right)

\* the node with the operands of every And and Or exchanged
RECURSIVE Swapped(_)
Swapped(n) ==
    IF n.op = "Equal" THEN n
    ELSE Logical(n.op, Swapped(n.right), Swapped(n.left))

\* the ids of the interned series whose tag pairs satisfy the node
SeriesSatisfying(n) ==
    {mdKeyToId[k] : k \in {x \in DOMAIN mdKeyToId : Satisfies(IndexPairs(x).pairs, n)}}

\* C11: the id set a read evaluates a tree of Equal, And and Or to is the set
\* of the ids of the interned series whose tag pairs satisfy the tree, and
\* it is the same with the operands of every And and Or exchanged.
C11_EvaluateIsBooleanSemantics ==
    (ReadReturned /\ IsBoolean(mdOp.predicate[1])) =>
        /\ Evaluate(MdState, mdOp.predicate[1]).ok
        /\ ReadIds = SeriesSatisfying(mdOp.predicate[1])
        /\ ReadIds = Evaluate(MdState, Swapped(mdOp.predicate[1])).ids

\* two series are interned and a tree of depth two is read that only one of
\* them satisfies
C11_Witness ==
    /\ ReadReturned
    /\ mdOp.predicate[1] \in MdNested
    /\ mdLastId >= 2
    /\ Cardinality(ReadIds) = 1

----------------------------------------------------------------------------
(* Properties of MemDB::write, under SpecMem *)

\* a write call is made in this step
WriteCalled == mdOp.op = "none" /\ mdOp'.op = "write"

\* the MemDB after the loop of the write has gone through the first k points
AfterPoints(points, k) == MemDBWrite(MdState, SubSeq(points, 1, k))

\* the k-th point of the write is reached by the loop and its value type is
\* not the type recorded for its series key
MismatchAt(points, k) ==
    LET reached == AfterPoints(points, k - 1)
        p == points[k]
    IN  /\ reached.ok
        /\ p.series \in DOMAIN reached.db.series_key_to_id
        /\ reached.db.series_id_to_key_and_type[
               reached.db.series_key_to_id[p.series]].type # p.type

\* C12: a point whose value type differs from the type recorded for its series
\* key makes the write fail, and the point changes neither the recorded type
\* nor any buffer.
C12_Original_TypeMismatchRejected ==
    [][WriteCalled =>
          \A k \in 1..Len(mdOp'.points) :
              MismatchAt(mdOp'.points, k) =>
                  /\ mdRet'.kind = "err"
                  /\ AfterPoints(mdOp'.points, k).db = AfterPoints(mdOp'.points, k - 1).db]_vars

\* the loop of the write reaches the k-th point and insert_series returns an
\* error for it
FailsAt(points, k) ==
    /\ AfterPoints(points, k - 1).ok
    /\ ~InsertSeries(AfterPoints(points, k - 1).db, points[k]).ok

\* the k-th point of the write is one that has to fail: insert_series returns
\* an error for it or its value type is not the type recorded for its key
MustFailAt(points, k) == FailsAt(points, k) \/ MismatchAt(points, k)

\* the k-th point is the first point of the write that has to fail
FirstFailureAt(points, k) ==
    /\ MustFailAt(points, k)
    /\ \A j \in 1..(k - 1) : ~MustFailAt(points, j)

\* C13: a write returns Ok with every point applied when no point has to
\* fail; when the k-th point is the first that has to fail it returns the
\* error and leaves the partition as the first k - 1 points made it: the
\* failing point changes nothing (no id, no map entry, no posting list, no tag
\* key, no buffer, no size) and no later point is applied.
C13_Original_AllOrNothingPerPoint ==
    [][WriteCalled =>
          /\ (\A k \in 1..Len(mdOp'.points) : ~MustFailAt(mdOp'.points, k)) =>
                 /\ mdRet'.kind = "ok"
                 /\ MdState' = AfterPoints(mdOp'.points, Len(mdOp'.points)).db
          /\ \A k \in 1..Len(mdOp'.points) :
                 FirstFailureAt(mdOp'.points, k) =>
                     /\ mdRet'.kind = "err"
                     /\ MdState' = AfterPoints(mdOp'.points, k - 1).db]_vars

\* a write goes through its points in order and applies each of them: it
\* returns Ok, and the points stored are the points of all the writes so far
\* in the order they were handed over
C13_EveryPointApplied ==
    [][WriteCalled =>
          /\ mdRet'.kind = "ok"
          /\ mdWritten' = mdWritten \o mdOp'.points]_vars

\* a write of two points has stored both although the second is of another
\* value type than the type recorded for their key
C13_MismatchApplied ==
    /\ mdOp.op = "write"
    /\ mdRet.kind = "ok"
    /\ Len(mdOp.points) = 2
    /\ mdOp.points[1].series = mdOp.points[2].series
    /\ mdOp.points[1].type # mdOp.points[2].type
    /\ Len(mdWritten) = 2

----------------------------------------------------------------------------
(* Properties of the series map, under SpecMem *)

\* C14: the map key -> id and the map id -> (key, type) are inverses of each
\* other: they have the same number of entries, the key k has the id i exactly
\* when the id i has the key k, and no two keys have the same id.
C14_MapsAreInverses ==
    /\ Cardinality(DOMAIN mdKeyToId) = Cardinality(DOMAIN mdIdToKeyType)
    /\ \A k \in DOMAIN mdKeyToId :
          /\ mdKeyToId[k] \in DOMAIN mdIdToKeyType
          /\ mdIdToKeyType[mdKeyToId[k]].key = k
    /\ \A i \in DOMAIN mdIdToKeyType :
          /\ mdIdToKeyType[i].key \in DOMAIN mdKeyToId
          /\ mdKeyToId[mdIdToKeyType[i].key] = i
    /\ \A k1, k2 \in DOMAIN mdKeyToId : mdKeyToId[k1] = mdKeyToId[k2] => k1 = k2

\* two keys are interned, one of them written twice
C14_Witness ==
    /\ Cardinality(DOMAIN mdKeyToId) = 2
    /\ Len(mdWritten) = 3
    /\ \E a, b \in 1..Len(mdWritten) : a # b /\ mdWritten[a].series = mdWritten[b].series

\* the points the loop of the write of this step went through: the points it
\* stored and the point it failed on
Processed ==
    SubSeq(mdOp'.points, 1,
           Len(mdWritten') - Len(mdWritten) + (IF mdRet'.kind = "err" THEN 1 ELSE 0))

RECURSIVE FirstSightings(_, _)
\* the keys of the points that are not among the known keys, each once, in the
\* order the points first show them
FirstSightings(points, known) ==
    IF points = <<>> THEN <<>>
    ELSE IF Head(points).series \in known THEN FirstSightings(Tail(points), known)
    ELSE <<Head(points).series>>
             \o FirstSightings(Tail(points), known \cup {Head(points).series})

\* C15: a write gives the keys it sees for the first time the ids last_id + 1,
\* last_id + 2, ... in the order it sees them and leaves the id of every
\* interned key as it was; after it the ids are 1..last_id, one per interned
\* key, so writing an interned key takes no id.
C15_IdsInOrderOfFirstSighting ==
    [][WriteCalled =>
          LET new == FirstSightings(Processed, DOMAIN mdKeyToId)
          IN  /\ \A k \in DOMAIN mdKeyToId :
                    k \in DOMAIN mdKeyToId' /\ mdKeyToId'[k] = mdKeyToId[k]
              /\ DOMAIN mdKeyToId' = DOMAIN mdKeyToId \cup Range(new)
              /\ \A j \in 1..Len(new) : mdKeyToId'[new[j]] = mdLastId + j
              /\ mdLastId' = mdLastId + Len(new)
              /\ mdLastId' = Cardinality(DOMAIN mdKeyToId')
              /\ {mdKeyToId'[k] : k \in DOMAIN mdKeyToId'} = 1..mdLastId']_vars

\* the last write was of a new key, which got the id 2, and then of the key
\* interned before it, which kept the id 1
C15_Witness ==
    /\ mdOp.op = "write"
    /\ Len(mdOp.points) = 2
    /\ Len(mdWritten) = 3
    /\ mdLastId = 2
    /\ mdKeyToId[mdOp.points[1].series] = 2
    /\ mdKeyToId[mdOp.points[2].series] = 1

----------------------------------------------------------------------------
(* Properties of the errors of SeriesSetConverter, under SpecConv *)

\* convert has run up to its first await or further
ConvertRan == cvPc # "start"

\* C16: when the reader yields a second batch, the conversion ends with a
\* MultiBatchNotSupported error that convert sends like its other errors: it
\* does not panic and no SeriesSet is sent.
C16_Original_SecondBatchIsError ==
    (Len(cvIt) >= 2 /\ cvIt[1].ok /\ ConvertRan) =>
        /\ cvPc # "panicked"
        /\ cvErr = <<[error |-> "MultiBatchNotSupported"]>>
        /\ SentSets = <<>>

\* the reader yields one batch that has the time column and every listed column
AllColumnsFound ==
    /\ SingleBatch
    /\ IndexOf(cvIt[1].batch.schema, TIME_COLUMN_NAME) >= 0
    /\ NamesToIndices(cvIt[1].batch.schema, cvTags).ok
    /\ NamesToIndices(cvIt[1].batch.schema, cvFields).ok

\* the c-th listed tag column is the first that is not a string column
FirstNonStringTag(c) ==
    LET schema == cvIt[1].batch.schema
    IN  /\ schema[IndexOf(schema, cvTags[c]) + 1].type # "Utf8"
        /\ \A d \in 1..(c - 1) : schema[IndexOf(schema, cvTags[d]) + 1].type = "Utf8"

\* C17: when a listed tag column is not a string column, the conversion ends
\* with an UnsupportedTagType error naming the column, whatever the number of
\* rows of the batch: it does not panic and no SeriesSet is sent.
C17_Original_NonStringTagIsError ==
    \A c \in 1..Len(cvTags) :
        (AllColumnsFound /\ FirstNonStringTag(c) /\ ConvertRan) =>
            /\ cvPc # "panicked"
            /\ cvErr = <<[error |-> "UnsupportedTagType", column_name |-> cvTags[c]]>>
            /\ SentSets = <<>>

\* the names among names that are not columns of the schema, in their order
MissingOf(names, schema) ==
    SelectSeq(names, LAMBDA n : \A c \in 1..Len(schema) : schema[c].name # n)

\* the columns the conversion needs that its one batch does not have: time,
\* then the tag columns, then the field columns
MissingColumns ==
    MissingOf(<<TIME_COLUMN_NAME>> \o cvTags \o cvFields, cvIt[1].batch.schema)

\* the one item of a conversion with a missing column
FirstMissingError ==
    [ok |-> FALSE,
     err |-> [error |-> "ColumnNotFoundForSeriesSet", column_name |-> Head(MissingColumns)]]

\* C18 as stated: when the batch lacks a needed column, convert sends exactly
\* one item, the ColumnNotFound error of the first missing column, and
\* returns Ok.
C18_Original_ColumnNotFoundSent ==
    (SingleBatch /\ MissingColumns # <<>> /\ cvPc = "returned") =>
        /\ cvSent = <<FirstMissingError>>
        /\ cvResult = "Ok"

\* C18: when the one batch lacks a needed column, convert sends no SeriesSet
\* and does not panic; with the consumer's end of the channel not dropped
\* before the send it sends exactly one item, the ColumnNotFound error of the
\* first missing column, and returns Ok; with that end dropped before the send
\* it sends nothing and returns the Sending error.
C18_ColumnNotFoundSentToConsumer ==
    (SingleBatch /\ MissingColumns # <<>> /\ ConvertRan) =>
        /\ cvPc # "panicked"
        /\ SentSets = <<>>
        /\ cvPc # "returned" => cvSent = <<>>
        /\ cvPc = "returned" =>
              \/ cvResult = "Ok" /\ cvSent = <<FirstMissingError>>
              \/ cvResult = "Sending" /\ cvSent = <<>> /\ ~cvRxAlive
        /\ (cvPc = "returned" /\ cvRxAlive) => cvResult = "Ok"

\* the batch lacks the time column and a listed tag column that comes after a
\* column it has; the consumer has received the one item, which names time
C18_Witness ==
    /\ SingleBatch
    /\ cvIt[1].batch.schema = NoTimeSchema
    /\ cvTags = <<"tag_a", "missing">>
    /\ cvFields = <<"missing">>
    /\ cvPc = "returned"
    /\ cvResult = "Ok"
    /\ cvRecv = <<FirstMissingError>>
    /\ cvRecv[1].err.column_name = "time"

----------------------------------------------------------------------------
(* Properties of the cancellation of SeriesSetConverter, under SpecConv *)

\* the conversion is one of SeriesSets: some are sent or still to send
HasSeriesSets == SentSets # <<>> \/ cvTodo # <<>>

\* nothing is sent or received in this step
NothingPasses == cvSent' = cvSent /\ cvRecv' = cvRecv

\* C19 as stated: once the consumer has dropped its end, whatever the number
\* of SeriesSets it had received, nothing more is sent or received and
\* convert returns the Sending error.
C19_Original_DropMakesConvertFail ==
    [][(~cvRxAlive' /\ HasSeriesSets') =>
          /\ ~cvRxAlive => NothingPasses
          /\ cvPc' = "returned" => cvResult' = "Sending"]_vars

\* C19: once the consumer has dropped its end, whatever the number of
\* SeriesSets it had received, nothing more is sent or received; if convert
\* has a SeriesSet left to send, its next send fails and convert returns the
\* Sending error with that SeriesSet and the ones after it unsent; if the
\* channel had taken the last SeriesSet before the drop, convert returns Ok.
C19_DropFailsNextSend ==
    [][(~cvRxAlive' /\ HasSeriesSets') =>
          /\ ~cvRxAlive => NothingPasses
          /\ (~cvRxAlive /\ cvPc = "send" /\ cvPc' # cvPc) =>
                 /\ cvPc' = "send_err"
                 /\ cvErr' = <<[error |-> "Sending"]>>
                 /\ cvTodo' = cvTodo
          /\ (~cvRxAlive /\ cvPc = "send_err" /\ cvPc' # cvPc) =>
                 cvPc' = "returned" /\ cvResult' = "Sending"
          /\ cvPc' = "returned" =>
                 /\ cvTodo' # <<>> => cvResult' = "Sending"
                 /\ cvTodo' = <<>> => cvResult' = "Ok"]_vars

\* the consumer received one SeriesSet of three and dropped its end with the
\* second in the channel; convert returned the Sending error with the third
\* unsent
C19_Witness ==
    /\ ~cvRxAlive
    /\ cvPc = "returned"
    /\ cvResult = "Sending"
    /\ Len(cvRecv) = 1
    /\ cvRecv[1].ok
    /\ Len(SentSets) = 2
    /\ Len(cvTodo) = 1

----------------------------------------------------------------------------
(* Properties of MemDB::get_tag_keys, under SpecMem *)

\* the tag keys of the pairs of the interned series
InternedTagKeys ==
    UNION {{IndexPairs(k).pairs[c].key : c \in 1..Len(IndexPairs(k).pairs)} :
              k \in DOMAIN mdKeyToId}

\* the position of the string in the byte order
OrderOf(s) == CHOOSE n \in 1..Len(StringOrder) : StringOrder[n] = s

\* C20: get_tag_keys returns Ok with the tag keys of the interned series, each
\* once and in ascending order, whatever the range and the predicate it is
\* called with.
C20_TagKeysOfInternedSeries ==
    mdOp.op = "get_tag_keys" =>
        /\ mdRet.kind = "ok"
        /\ Range(mdRet.keys) = InternedTagKeys
        /\ \A n \in 2..Len(mdRet.keys) : OrderOf(mdRet.keys[n - 1]) < OrderOf(mdRet.keys[n])

\* three series with the same tag keys are interned; get_tag_keys is called with a predicate without root and a range
\* that holds no time
C20_Witness ==
    /\ mdOp.op = "get_tag_keys"
    /\ mdLastId = 3
    /\ mdOp.predicate = <<>>
    /\ mdOp.range = TimestampRange(0, 0)
    /\ mdRet.keys = <<"_f", "_m", "host">>

----------------------------------------------------------------------------
(* Properties of MemDB::get_tag_values, under SpecMem *)

\* the values v such that an interned series has the pair (tag_key, v)
InternedTagValues(tag_key) ==
    UNION {{IndexPairs(k).pairs[c].value :
               c \in {d \in 1..Len(IndexPairs(k).pairs) : IndexPairs(k).pairs[d].key = tag_key}} :
              k \in DOMAIN mdKeyToId}

\* C21: get_tag_values returns Ok with the values the interned series have
\* for the tag key, each once and in ascending order, whatever the range and
\* the predicate; for a key no series has it returns the empty sequence.
C21_TagValuesOfInternedSeries ==
    mdOp.op = "get_tag_values" =>
        /\ mdRet.kind = "ok"
        /\ Range(mdRet.values) = InternedTagValues(mdOp.tag_key)
        /\ \A n \in 2..Len(mdRet.values) :
               OrderOf(mdRet.values[n - 1]) < OrderOf(mdRet.values[n])
        /\ InternedTagValues(mdOp.tag_key) = {} => mdRet.values = <<>>

\* the series of host b was interned before the series of host a; the values
\* of host are asked for with a predicate that only host a satisfies and a
\* range that holds no time
C21_Witness ==
    /\ mdOp.op = "get_tag_values"
    /\ mdOp.tag_key = "host"
    /\ mdOp.predicate = <<Equal("host", "a")>>
    /\ mdOp.range = TimestampRange(0, 0)
    /\ "cpu,host=a\tuser" \in DOMAIN mdKeyToId
    /\ "cpu,host=b\tuser" \in DOMAIN mdKeyToId
    /\ mdKeyToId["cpu,host=b\tuser"] < mdKeyToId["cpu,host=a\tuser"]
    /\ mdRet.values = <<"a", "b">>

----------------------------------------------------------------------------
(* Properties of the failures of MemDB::read, under SpecMem *)

\* C22: a read with a predicate without root returns the error of the missing
\* root, and so no batch, whatever the partition holds and whatever the range.
C22_NoRootIsError ==
    (mdOp.op = "read" /\ mdOp.predicate = <<>>) =>
        /\ mdRet.kind = "err"
        /\ mdRet.description = "expected root node to evaluate"

\* two series hold points and a read without root is made over a range that
\* holds the times of all of them
C22_Witness ==
    /\ mdOp.op = "read"
    /\ mdOp.predicate = <<>>
    /\ mdOp.range = TimestampRange(0, MdMaxTime + 1)
    /\ Cardinality(DOMAIN mdI64 \cup DOMAIN mdF64) >= 2
    /\ mdRet.kind = "err"

\* C23: the lookup of a pair that no interned series has gives the empty id
\* set, and a read whose predicate is Equal on such a pair returns Ok with no
\* batch.
C23_UnknownPairReadsNothing ==
    (ReadReturned /\ mdOp.predicate[1].op = "Equal"
                  /\ SeriesSatisfying(mdOp.predicate[1]) = {}) =>
        /\ PostingListForKeyValue(MdState, mdOp.predicate[1].key, mdOp.predicate[1].value) = {}
        /\ mdRet = [kind |-> "ok", batches |-> <<>>]

\* series of the key host hold points, none with the value read for, and
\* the range holds the times of all of them
C23_Witness ==
    /\ ReadReturned
    /\ mdOp.predicate[1] = Equal("host", "c")
    /\ mdOp.range = TimestampRange(0, MdMaxTime + 1)
    /\ Cardinality(InternedTagValues("host")) = 2
    /\ mdRet.kind = "ok"

----------------------------------------------------------------------------
(* Properties of the series buffers, under SpecMem *)

\* the times of the sequence of points never go down
TimesNonDecreasing(points) ==
    \A n \in 2..Len(points) : points[n - 1].time <= points[n].time

\* every buffer of the partition holds its points in non-decreasing time order
BuffersInTimeOrder ==
    /\ \A id \in DOMAIN mdI64 : TimesNonDecreasing(mdI64[id])
    /\ \A id \in DOMAIN mdF64 : TimesNonDecreasing(mdF64[id])

\* the points of every series key were written in non-decreasing time order
WritesInTimeOrder == \A key \in MdKeys : TimesNonDecreasing(WrittenUnder(key))

\* C24 as stated: after any sequence of writes the times of every buffer are
\* non-decreasing in insertion order.
C24_Original_BuffersInTimeOrder == BuffersInTimeOrder

\* C24: after writes that gave the points of every series key in
\* non-decreasing time order, the times of every buffer are non-decreasing in
\* insertion order.
C24_OrderedWritesKeepTimeOrder == WritesInTimeOrder => BuffersInTimeOrder

\* a buffer holds three points written in time order, not all of one time
C24_Witness ==
    /\ WritesInTimeOrder
    /\ \E id \in DOMAIN mdI64 :
          /\ Len(mdI64[id]) = 3
          /\ mdI64[id][1].time < mdI64[id][3].time

----------------------------------------------------------------------------
(* Properties of the batches of ReadMergeStream, under SpecRM *)

\* the slots hold no empty batch
NoEmptyHead(slots) ==
    \A i \in RMIdx : IsSome(slots[i]) => ~IsEmptyValues(slots[i].val.values)

\* the batches in the slots have non-decreasing times
HeadsTimeSorted(slots) ==
    \A i \in RMIdx : IsSome(slots[i]) => NonDecreasingTimes(slots[i].val.values.vals)

\* the last poll_next did not meet an empty batch, what it emitted is not
\* empty and the heads it keeps are not empty
NothingEmpty ==
    /\ rmFault # "empty_batch"
    /\ IsSome(rmRet) => ~IsEmptyValues(rmRet.val.values)
    /\ NoEmptyHead(rmNext)

\* C25 as stated: with non-empty input batches, start_stop_times never panics,
\* every emitted batch is non-empty with non-decreasing times and every head
\* kept for a later poll is non-empty.
C25_Original_EmittedNonEmptyTimeSorted ==
    /\ NothingEmpty
    /\ IsSome(rmRet) => NonDecreasingTimes(rmRet.val.values.vals)

\* C25: with non-empty input batches, start_stop_times never panics, every
\* emitted batch is non-empty and every head kept for a later poll is
\* non-empty; when the heads a poll_next selects from have non-decreasing
\* times, the batch it emits and the heads it keeps have non-decreasing times.
C25_EmittedNonEmptySortedInputs ==
    /\ NothingEmpty
    /\ HeadsTimeSorted(rmHeads) =>
           /\ IsSome(rmRet) => NonDecreasingTimes(rmRet.val.values.vals)
           /\ HeadsTimeSorted(rmNext)

\* a batch merged from two heads was emitted, and the rest of a partly
\* drained head, shorter than the head was, is kept
C25_Witness ==
    /\ HeadsTimeSorted(rmHeads)
    /\ IsSome(rmRet)
    /\ Len(rmRet.val.values.vals) >= 2
    /\ \E i \in RMIdx :
          /\ IsSome(rmNext[i]) /\ IsSome(rmHeads[i])
          /\ rmNext[i].val.key = rmRet.val.key
          /\ Len(rmNext[i].val.values.vals) < Len(rmHeads[i].val.values.vals)

----------------------------------------------------------------------------
(* Properties of the order of the points read, under SpecMem *)

\* the points as read returns them
AsReadPoints(points) == [n \in 1..Len(points) |-> ReadPoint(points[n].value, points[n].time)]

\* s is t[a..b] for some a and b
IsContiguousIn(s, t) ==
    \E a \in 1..(Len(t) + 1), b \in 0..Len(t) : s = SubSeq(t, a, b)

\* C26: the points of every batch a read returns are a contiguous part of
\* the points written under the batch's key, in the order of the writes.
C26_Original_ReadIsContiguousSlice ==
    (ReadReturned /\ mdRet.kind = "ok") =>
        \A n \in 1..Len(mdRet.batches) :
            IsContiguousIn(mdRet.batches[n].values.vals,
                           AsReadPoints(WrittenUnder(mdRet.batches[n].key)))

----------------------------------------------------------------------------
(* Properties of SeriesSetConverter without input, under SpecConv *)

\* C27: when the reader yields no batch, convert sends nothing, neither a
\* SeriesSet nor an error, and returns Ok, whatever the tag and field column
\* names are.
C27_NoBatchSendsNothing ==
    (cvIt = <<>> /\ ConvertRan) =>
        /\ cvPc = "returned"
        /\ cvResult = "Ok"
        /\ cvErr = <<>>
        /\ cvSent = <<>>

\* convert was called without a batch and with column names no schema has;
\* the consumer has seen the channel close without an item
C27_Witness ==
    /\ cvIt = <<>>
    /\ cvTags = <<"missing", "tag_a">>
    /\ cvFields = <<"missing">>
    /\ cvResult = "Ok"
    /\ cvRxClosed
    /\ cvRecv = <<>>

----------------------------------------------------------------------------
(* Properties of the polling of both merge streams, under SpecMerge *)

\* an input of the StringMergeStream without head was polled in this step and
\* is still not ready
SMStillPending ==
    \E i \in SMIdx : IsPending(smNext[i]) /\ smPolls'[i] = 1 /\ IsPending(smNext'[i])

\* the step of a StringMergeStream that is not drained
C28_SMStep ==
    /\ \A i \in SMIdx : IsPending(smNext[i]) => smPolls'[i] >= 1
    /\ SMStillPending =>
          /\ smRet' = Pending
          /\ smOut' = smOut
          /\ \A i \in SMIdx : ~IsPending(smNext[i]) =>
                 smNext'[i] = smNext[i] /\ smPolls'[i] = 0

\* the step of a ReadMergeStream that is not drained
C28_RMStep ==
    /\ rmFilled'
    /\ (\E i \in RMIdx : IsPending(rmHeads'[i])) =>
          /\ rmRet' = Pending
          /\ rmNext' = rmHeads'
          /\ \A i \in RMIdx : ~IsPending(rmNext[i]) => rmNext'[i] = rmNext[i]
    /\ IsSome(rmRet') => \A i \in RMIdx : ~IsPending(rmHeads'[i])

\* C28: a poll of a merge stream that is not drained first polls every input
\* whose slot holds no head; if one of them is still not ready it returns
\* Pending, emits nothing and leaves every buffered head in its slot, so a
\* value is emitted only when every input has a head or has ended.
C28_PollsPendingInputsFirst ==
    [][/\ (SMActive /\ ~smDrained) => C28_SMStep
       /\ (RMActive /\ ~rmDrained) => C28_RMStep]_vars

\* a ReadMergeStream has returned Pending from a poll in which one input was
\* not ready, and keeps the heads of the two other inputs
C28_Witness ==
    /\ RMActive
    /\ rmRet = Pending
    /\ rmFault = "none"
    /\ IsPending(rmNext[2])
    /\ IsSome(rmNext[1]) /\ IsSome(rmNext[3])

----------------------------------------------------------------------------
(* Properties of the end of both merge streams, under SpecMerge *)

\* the step of a StringMergeStream: end-of-stream is returned with every
\* input ended and no head left, and a drained merger returns it again
\* without a poll of an input
C29_SMStep ==
    /\ smRet' = ReadyNone =>
          /\ smDrained'
          /\ \A i \in SMIdx : smNext'[i] = ReadyNone /\ smEnded'[i] /\ smRest'[i] = <<>>
    /\ smDrained' <=> smRet' = ReadyNone
    /\ smDrained =>
          /\ smRet' = ReadyNone
          /\ \A i \in SMIdx : smPolls'[i] = 0
          /\ smNext' = smNext

\* the same step of a ReadMergeStream
C29_RMStep ==
    /\ rmRet' = ReadyNone =>
          /\ rmDrained'
          /\ \A i \in RMIdx : rmNext'[i] = ReadyNone /\ rmEnded'[i]
    /\ rmDrained' <=> rmRet' = ReadyNone
    /\ rmDrained =>
          /\ rmRet' = ReadyNone
          /\ rmMaxPolls' = 0
          /\ rmNext' = rmNext

\* C29: a merge stream returns end-of-stream only when every input has
\* returned end-of-stream and no slot holds a head; once it has returned
\* end-of-stream, every later poll returns it again and polls no input.
C29_EndOfStreamOnlyWhenAllEnded ==
    [][/\ SMActive => C29_SMStep
       /\ RMActive => C29_RMStep]_vars

\* a StringMergeStream whose inputs all held values has emitted them and has
\* returned end-of-stream from a poll that polled no input
C29_Witness ==
    /\ SMActive
    /\ smDrained
    /\ smRet = ReadyNone
    /\ Len(smOut) >= 2
    /\ \A i \in SMIdx : smIn[i] # <<>> /\ smPolls[i] = 0

\* ---------------------------------------------------------------------------
\* C30: with finite inputs that become ready and a consumer that polls again
\* and again, both merge streams emit end-of-stream at last; a poll that emits
\* a value consumes an input head; and at end-of-stream every input value has
\* been emitted or collapsed.
\* a pending input of the ReadMergeStream becomes ready: its slot is filled
\* again and again
RMBecomesReady(i) == []<>(RMActive => ~IsPending(rmNext[i]))
\* input i of the ReadMergeStream is polled and returns a batch
RMDelivers(i) == RMActive /\ IsPending(rmNext[i]) /\ ~rmDrained /\ IsSome(rmHeads'[i])
\* input i of the ReadMergeStream is finite: it returns no batch from some
\* poll on
RMFinite(i) == <>[][~RMDelivers(i)]_vars

RECURSIVE SMUnread(_, _)
\* the values of the inputs 1..n that no poll has taken from its stream
SMUnread(rest, n) == IF n = 0 THEN 0 ELSE SMUnread(rest, n - 1) + Len(rest[n])
\* the input values not consumed yet: unread, or held in a slot
SMLeft(rest, next) == SMUnread(rest, SMInputs) + Cardinality({i \in SMIdx : IsSome(next[i])})

\* a poll_next that emits a value consumes an input head
C30_SMConsumes == IsSome(smRet') => SMLeft(smRest', smNext') < SMLeft(smRest, smNext)
C30_RMConsumes ==
    IsSome(rmRet') => \E i \in RMIdx : IsSome(rmHeads'[i]) /\ IsPending(rmNext'[i])

\* at end-of-stream no input value is left unread or held in a slot
C30_SMNothingLeft ==
    smDrained => /\ SMLeft(smRest, smNext) = 0
                 /\ Range(smOut) = SMInputValues
C30_RMNothingLeft == rmDrained => \A i \in RMIdx : rmEnded[i] /\ rmNext[i] = ReadyNone

\* the StringMergeStream, whose inputs are finite, emits end-of-stream at last
\* when the polls that change it are not put off for ever; the ReadMergeStream
\* emits it at last when every input is finite and becomes ready
C30_EndOfStreamAtLast ==
    /\ <>(SMActive => smDrained)
    /\ (\A i \in RMIdx : RMBecomesReady(i) /\ RMFinite(i)) => <>(RMActive => rmDrained)

\* C30 as claimed: end-of-stream at last, every emitting poll consumes a
\* head, and every input value is emitted (or collapsed, in the
\* StringMergeStream) before end-of-stream, for any inputs.
C30_Original_MergeLiveness ==
    /\ C30_EndOfStreamAtLast
    /\ [][/\ SMActive => C30_SMConsumes
          /\ RMActive => C30_RMConsumes /\ PointsConserved]_vars
    /\ [](/\ SMActive => C30_SMNothingLeft
          /\ RMActive => C30_RMNothingLeft)

\* C30 amended: the same, where the ReadMergeStream emits every input point of
\* the polls in which the head batches of one key have one value type.
C30_MergeLivenessSameType ==
    /\ C30_EndOfStreamAtLast
    /\ [][/\ SMActive => C30_SMConsumes
          /\ RMActive => /\ C30_RMConsumes
                         /\ HeadTypesAgree(rmHeads') => PointsConserved]_vars
    /\ [](/\ SMActive => C30_SMNothingLeft
          /\ RMActive => C30_RMNothingLeft)

\* C30 witness: end-of-stream was emitted after values were emitted and
\* duplicates were collapsed
C30_Witness ==
    /\ SMActive
    /\ smDrained
    /\ Len(smOut) >= 2
    /\ \E i, j \in SMIdx : i # j /\ Range(smIn[i]) \cap Range(smIn[j]) # {}

\* ---------------------------------------------------------------------------
\* C31: for fixed inputs the items emitted are the same whatever Pending
\* answers the inputs give: a StringMergeStream has always emitted a prefix of
\* the ascending sequence of its inputs' values, and a ReadMergeStream a prefix
\* of the batches it emits when no input ever answers Pending; at
\* end-of-stream each has emitted the whole sequence.
AscendingSeqOf(S) == SelectSeq([v \in 1..SMMaxStr |-> v], LAMBDA v : v \in S)
C31_MergeDeterminism ==
    /\ SMActive => /\ IsPrefix(smOut, AscendingSeqOf(SMInputValues))
                   /\ smDrained => smOut = AscendingSeqOf(SMInputValues)
    /\ RMFixed => /\ IsPrefix(rmOut, rmRef)
                  /\ rmDrained => rmOut = rmRef

\* C31 witness: end-of-stream after a ReadMergeStream, whose inputs answered
\* Pending between its polls, split one key into two batches
C31_Witness ==
    /\ RMFixed
    /\ rmDrained
    /\ Len(rmOut) >= 2
    /\ rmOut[1].key = rmOut[2].key
    /\ \E i \in RMIdx : Len(rmIn[i]) = 2

\* ---------------------------------------------------------------------------
\* C32 as claimed: no input is polled after it returned end-of-stream, and no
\* poll_next of either merger polls an input more than once.
C32_Original_PolledOnce ==
    /\ SMActive => /\ smFault # "polled_after_end"
                   /\ \A i \in SMIdx : smPolls[i] <= 1
    /\ RMActive => /\ rmFault # "polled_after_end"
                   /\ rmMaxPolls <= 1

\* a StringMergeStream polls an input a second time only after its first loop
\* polled it, the slot having been Pending
C32_SMSecondPoll == \A i \in SMIdx : smPolls'[i] = 2 => IsPending(smNext[i])

\* C32 amended: no input is polled after it returned end-of-stream; a
\* poll_next of ReadMergeStream polls no input more than once, and one of
\* StringMergeStream polls no input more than twice, the second time only an
\* input its first loop has polled.
C32_PolledOnceOrReplaced ==
    /\ [](/\ SMActive => /\ smFault # "polled_after_end"
                         /\ \A i \in SMIdx : smPolls[i] <= 2
          /\ RMActive => /\ rmFault # "polled_after_end"
                         /\ rmMaxPolls <= 1)
    /\ [][SMActive => C32_SMSecondPoll]_vars

\* C32 witness: one poll_next polled an input twice, after another input had
\* ended
C32_Witness ==
    /\ SMActive
    /\ \E i, j \in SMIdx : smPolls[i] = 2 /\ smEnded[j] /\ i # j

\* ---------------------------------------------------------------------------
\* C33: the unreachable!() branches are never reached: no poll_next of either
\* merger meets a Pending slot in its selection loop, a ReadMergeStream runs
\* its selection only with every slot Ready, and the slot it takes as the
\* leader holds a batch, the one whose key is emitted.
C33_RMSelection ==
    /\ (~IsPending(rmRet') /\ ~rmDrained) => \A i \in RMIdx : ~IsPending(rmHeads'[i])
    /\ IsSome(rmRet') =>
          \E i \in RMIdx : /\ IsSome(rmHeads'[i])
                           /\ rmHeads'[i].val.key = rmRet'.val.key
                           /\ IsPending(rmNext'[i])
C33_UnreachableNotReached ==
    /\ [](/\ SMActive => smFault # "unreachable"
          /\ RMActive => rmFault # "unreachable")
    /\ [][RMActive => C33_RMSelection]_vars

\* C33 witness: a StringMergeStream emitted a value in a poll_next whose
\* selection loop polled an input again and left its slot Pending
C33_Witness ==
    /\ SMActive
    /\ IsSome(smRet)
    /\ \E i \in SMIdx : smPolls[i] = 2 /\ IsPending(smNext[i]) /\ smRet.val \in Range(smIn[i])

\* ---------------------------------------------------------------------------
\* C34: the posting list of (tag_key, tag_value) holds exactly the ids of the
\* interned series whose key carries the pair; no step removes an id from a
\* posting list, and a write of points of interned series only changes no
\* posting list and no entry of the dictionaries.
C34_PairsOf(series) == {IndexPairs(series).pairs[c] : c \in 1..Len(IndexPairs(series).pairs)}

C34_AllPairs == UNION {C34_PairsOf(k) : k \in MdKeys}

C34_IdsCarrying(pair) == {mdKeyToId[k] : k \in {x \in DOMAIN mdKeyToId : pair \in C34_PairsOf(x)}}

C34_Exact ==
    /\ DOMAIN mdPosting = {ListKey(p.key, p.value) : p \in {q \in C34_AllPairs : C34_IdsCarrying(q) # {}}}
    /\ \A p \in C34_AllPairs :
          ListKey(p.key, p.value) \in DOMAIN mdPosting
             => mdPosting[ListKey(p.key, p.value)] = C34_IdsCarrying(p)

C34_NeverRemoved ==
    \A lk \in DOMAIN mdPosting : lk \in DOMAIN mdPosting' /\ mdPosting[lk] \subseteq mdPosting'[lk]

C34_InternedWriteChangesNothing ==
    (/\ mdOp'.op = "write"
     /\ \A k \in 1..Len(mdOp'.points) : mdOp'.points[k].series \in DOMAIN mdKeyToId)
       => UNCHANGED <<mdPosting, mdTagKeys, mdKeyToId, mdIdToKeyType, mdLastId>>

C34_PostingListsExact ==
    /\ []C34_Exact
    /\ [][C34_NeverRemoved /\ C34_InternedWriteChangesNothing]_vars

\* C34 witness: two series carry the pair (_m, cpu), both ids are in its
\* posting list, and the last write was of points of interned series
C34_Witness ==
    /\ {"cpu,host=a\tuser", "cpu,host=b\tuser"} \subseteq DOMAIN mdKeyToId
    /\ ListKey("_m", "cpu") \in DOMAIN mdPosting
    /\ mdPosting[ListKey("_m", "cpu")] = {mdKeyToId["cpu,host=a\tuser"], mdKeyToId["cpu,host=b\tuser"]}
    /\ mdOp.op = "write"
    /\ Len(mdWritten) > Len(mdOp.points) + 1

\* ---------------------------------------------------------------------------
\* C35 as stated: read never panics, for every predicate and range, in every
\* state that writes can reach.
C35_Original_ReadNeverPanics == mdOp.op = "read" => mdRet.kind # "panic"

\* the part of C35 about the unwraps: every id of a posting list has its key
\* and type recorded and a buffer in the map of that type
C35_UnwrapsSucceed ==
    \A lk \in DOMAIN mdPosting : \A id \in mdPosting[lk] :
        /\ id \in DOMAIN mdIdToKeyType
        /\ id \in DOMAIN (IF mdIdToKeyType[id].type = "I64" THEN mdI64 ELSE mdF64)

\* a read panics only in the slice of SeriesBuffer::read, over a range that
\* ends before it starts
C35_PanicsOnlyOnInvertedRange ==
    (mdOp.op = "read" /\ mdRet.kind = "panic") => mdOp.range.start > mdOp.range.end

\* ---------------------------------------------------------------------------
\* C36: read, get_tag_keys and get_tag_values leave the partition as it was
\* (both series maps, last_id, posting lists, tag dictionary, buffers and
\* sizes), whether they return Ok or Err; the evaluator combines copies of
\* the posting lists.
C36_IsQuery(op) == op \in {"read", "get_tag_keys", "get_tag_values"}

C36_QueriesChangeNothing ==
    [][(mdOp.op = "none" /\ C36_IsQuery(mdOp'.op)) => MdState' = MdState]_vars

\* C36 witness: a read of host = a or host = b returned both series, a set
\* of ids that differs from the posting list of its left leaf
C36_Witness ==
    /\ mdOp.op = "read"
    /\ mdOp.predicate = <<Logical("Or", Equal("host", "a"), Equal("host", "b"))>>
    /\ mdRet.kind = "ok"
    /\ Len(mdRet.batches) = 2
    /\ mdPosting[ListKey("host", "a")] # mdPosting[ListKey("host", "b")]

\* ---------------------------------------------------------------------------
\* C37: in a poll_next of a ReadMergeStream that emits a batch, every head of
\* the emitted key whose value type differs from the leader's is dropped: its
\* slot is left Pending (to be polled anew), none of the points of its input
\* is in the emitted batch, and the call ends without fault.
C37_OtherType(i) ==
    /\ IsSome(rmRet') /\ IsSome(rmHeads'[i])
    /\ rmHeads'[i].val.key = rmRet'.val.key
    /\ rmHeads'[i].val.values.type # rmRet'.val.values.type

C37_Discarded(i) ==
    /\ IsPending(rmNext'[i])
    /\ \A j \in 1..Len(rmRet'.val.values.vals) : rmRet'.val.values.vals[j].value # i
    /\ rmFault' = "none"

C37_MixedTypesDiscarded == [][\A i \in RMIdx : C37_OtherType(i) => C37_Discarded(i)]_vars

\* C37 witness: a batch was emitted while another input's head of the same
\* key and the other value type was held, and that head is gone
C37_Witness ==
    /\ IsSome(rmRet)
    /\ rmFault = "none"
    /\ \E i \in RMIdx : /\ IsSome(rmHeads[i])
                        /\ rmHeads[i].val.key = rmRet.val.key
                        /\ rmHeads[i].val.values.type # rmRet.val.values.type
                        /\ IsPending(rmNext[i])

\* ---------------------------------------------------------------------------
\* the SeriesSets convert_impl has computed: those sent and those still to send
C38_Computed == [n \in 1..Len(SentSets) |-> SentSets[n].set] \o cvTodo

\* C38: for a batch of zero rows, a conversion on at least one tag column
\* computes no SeriesSet and does not panic, and one on no tag column whose
\* time and field columns are found computes exactly one SeriesSet, of
\* start_row 0 and num_rows 0; for a batch of at least one row every
\* SeriesSet computed has num_rows >= 1.
C38_ZeroRowBatch ==
    (SingleBatch /\ ConvertRan) =>
        LET N == Len(cvIt[1].batch.rows)
        IN  /\ (N = 0 /\ cvTags # <<>>) => (cvPc # "panicked" /\ C38_Computed = <<>>)
            /\ (N = 0 /\ cvTags = <<>> /\ AllColumnsFound) =>
                   /\ Len(C38_Computed) = 1
                   /\ C38_Computed[1].start_row = 0
                   /\ C38_Computed[1].num_rows = 0
            /\ N >= 1 => \A n \in 1..Len(C38_Computed) : C38_Computed[n].num_rows >= 1

\* C38 witness: the consumer has received the one SeriesSet, of no rows, of a
\* batch of zero rows converted on no tag column
C38_Witness ==
    /\ SingleBatch
    /\ cvIt[1].batch.rows = <<>>
    /\ cvTags = <<>>
    /\ cvPc = "returned"
    /\ Len(cvRecv) = 1
    /\ cvRecv[1].ok
    /\ cvRecv[1].set.num_rows = 0

\* a batch of zero rows was converted on two tag columns, one of them not a
\* string column, and convert returned Ok with nothing sent
C38_ZeroRowsWithTags ==
    /\ SingleBatch
    /\ cvIt[1].batch.rows = <<>>
    /\ cvTags = <<"tag_a", "int_field">>
    /\ cvPc = "returned"
    /\ cvResult = "Ok"
    /\ cvSent = <<>>

\* ---------------------------------------------------------------------------
\* no item is put in the channel while it holds cvCap items
C39_SendWaitsForRoom == [][cvSent' # cvSent => Len(cvChan) < cvCap]_vars

\* the consumer does not drop its end
C39_KeepsReceiving == []cvRxAlive

\* convert panics on this input (C16, C17)
C39_Panics == ConvertImpl(cvTable, cvTags, cvFields, cvIt).kind = "panic"

\* every SeriesSet computed has been received, once and in order
C39_AllReceived == cvTodo = <<>> /\ cvRecv = cvSent

\* C39 as stated: a send waits while the channel holds c items; if the
\* consumer keeps receiving, convert eventually returns Ok, every SeriesSet
\* computed is received exactly once, and after the converter is dropped the
\* consumer's recv finds the channel closed.
C39_Original_BoundedChannelLiveness ==
    /\ C39_SendWaitsForRoom
    /\ [](Len(cvChan) <= cvCap)
    /\ C39_KeepsReceiving =>
          /\ <>(cvPc = "returned" /\ cvResult = "Ok")
          /\ <>[](cvRxClosed /\ C39_AllReceived)

\* the same for the conversions that do not panic; one that panics ends with
\* the channel closed and nothing received
C39_LivenessUnlessPanic ==
    /\ C39_SendWaitsForRoom
    /\ [](Len(cvChan) <= cvCap)
    /\ C39_KeepsReceiving =>
          /\ <>(C39_Panics \/ (cvPc = "returned" /\ cvResult = "Ok"))
          /\ <>[](cvRxClosed /\ (C39_Panics \/ C39_AllReceived))
          /\ <>[](C39_Panics => (cvPc = "panicked" /\ cvRecv = <<>>))

\* ---------------------------------------------------------------------------
\* the handler the match of service names for a method and a path
C40_Listed ==
    {<<"POST", "/api/v2/write", "write">>, <<"POST", "/api/v2/buckets", "no_op">>,
     <<"GET", "/ping", "ping">>, <<"GET", "/api/v2/read", "read">>,
     <<"GET", "/api/v1/partitions", "list_partitions">>,
     <<"GET", "/api/v1/snapshot", "snapshot_partition">>}

C40_Calls == {htReqs[n] : n \in 1..Len(htReqs)}

\* the status of a response is that of the arm's result: 204 for Ok(None),
\* the error's status_code for Err(e); a call that is suspended or has
\* panicked has no response
C40_StatusOfResult ==
    \A c \in C40_Calls :
        /\ c.result.kind = "ok_none" => c.status = 204
        /\ c.result.kind = "err" => c.status = StatusCodeOf(c.result.err)
        /\ (c.handler = "RouteNotFound" /\ c.pc = "done") => c.status = 404
        /\ c.pc # "done" => c.status = 0

\* C40 as stated: each of the six (method, path) pairs of service's match
\* reaches its handler, GET /api/v1/partitions list_partitions and GET
\* /api/v1/snapshot snapshot_partition; only a request that matches none of
\* the six is answered RouteNotFound; Ok(None) gives 204 and Err(e) gives
\* e.status_code().
C40_Original_SixRoutes ==
    /\ \A c \in C40_Calls :
          /\ \A l \in C40_Listed : (c.method = l[1] /\ c.path = l[2]) => c.handler = l[3]
          /\ c.handler = "RouteNotFound" =>
                \A l \in C40_Listed : ~(c.method = l[1] /\ c.path = l[2])
    /\ C40_StatusOfResult

\* what the code does: the four pairs written before the wildcard arm reach
\* their handlers, every other request is answered RouteNotFound with 404,
\* the two /api/v1 requests included, whatever other calls are suspended
C40_FourRoutes ==
    /\ \A c \in C40_Calls :
          /\ \A l \in C40_Listed :
                (c.method = l[1] /\ c.path = l[2] /\ l[3] \in {"write", "no_op", "ping", "read"})
                    => c.handler = l[3]
          /\ c.handler \in {"write", "no_op", "ping", "read", "RouteNotFound"}
          /\ c.path \in {"/api/v1/partitions", "/api/v1/snapshot"} =>
                c.handler = "RouteNotFound" /\ c.status = 404
    /\ C40_StatusOfResult

\* a ping was answered while a write made before it is suspended at the
\* await of its body
C40_ServedWhileSuspended ==
    /\ Len(htReqs) = 2
    /\ htReqs[1].handler = "write" /\ htReqs[1].pc = "body"
    /\ htReqs[2].handler = "ping" /\ htReqs[2].status = 200

\* a write panicked on its body: the call is over without a response
C40_WritePanicked ==
    \E c \in C40_Calls : c.handler = "write" /\ c.pc = "panicked" /\ c.status = 0

====
